---------------------------- MODULE Spec2Model ----------------------------
(***************************************************************************)
(* A model of the decision-and-streaming pipeline of the AI system         *)
(* backend: the agent retry envelope (agents/base_agent.py), the response  *)
(* cache (services/cache_service.py), the smart router                     *)
(* (services/smart_router.py) and the streaming workflow                   *)
(* (orchestration/workflow.py with the /api/stream generator of main.py).  *)
(*                                                                         *)
(* Each component has its own specification (SpecRetry, SpecCache and      *)
(* SpecKey, SpecRouter, SpecStream); the variables of the other components *)
(* keep their initial values there.                                        *)
(***************************************************************************)
EXTENDS Integers, Sequences, FiniteSets

VARIABLES
    \* ---- BaseAgent (agents/base_agent.py) ----
    max_retries,      \* settings.max_retries, fixed for the lifetime of the agent
    status,           \* BaseAgent.status
    error_count,      \* BaseAgent.error_count
    success_count,    \* BaseAgent.success_count
    last_activity,    \* BaseAgent.last_activity
    rpc,              \* position of the run_with_retry coroutine
    attempt,          \* the loop variable of run_with_retry (0-based)
    last_exception,   \* the local last_exception of run_with_retry
    outcome,          \* what the current invocation returned or raised
    work_log,         \* history: the result of every execution of the work in this invocation
    sleeps,           \* history: the backoff sleeps of this invocation
    runs,             \* number of invocations of run_with_retry so far
    count_at_start,   \* history: <<success_count, error_count>> when the invocation began
    \* ---- ResponseCache (services/cache_service.py) ----
    cache,            \* ResponseCache._cache: a dict, kept in insertion order
    ttl_seconds,      \* ResponseCache.ttl_seconds
    max_size,         \* ResponseCache.max_size
    now,              \* the clock: what time.time() returns
    nsets,            \* number of set calls so far
    cop,              \* history: the arguments and time of the latest get call
    cret,             \* history: what the latest get call returned
    last_set,         \* history: the arguments and time of the latest set call
    \* ---- SmartRouter (services/smart_router.py) ----
    r_cur,            \* history: the latest route_request call and its result
    r_prev,           \* history: the call before it, when it had the same arguments
                      \* and no set or clear came in between
    \* ---- /api/stream (main.py) and AgentWorkflow (orchestration/workflow.py) ----
    spc,              \* position of the request in event_generator / execute_workflow_stream
    entry,            \* "api": POST /api/stream; "direct": execute_workflow_stream called itself
    sanitized_input,  \* the input the generators work on: sanitized_input of
                      \* stream_process, user_input of a direct call
    session_id,       \* metadata session_id, or None
    events,           \* the events yielded to the consumer so far, in order
    escaped,          \* an exception left the generator instead of an event
    local_response,   \* cached_or_local / local_response: what the router answered
    chunk_i,          \* the loop variable i of the chunk loop of event_generator
    db,               \* the conversation store: messages and interactions of the session
    history,          \* history_str: the lines of the trimmed history
    planner_response, \* what generate_content gave the planner step
    planner_decision, \* planner_decision
    feature_context,  \* feature_context
    stream,           \* what the synthesis stream will produce, item by item
    stream_i,         \* number of items of the synthesis stream consumed
    full_assistant_content, \* full_assistant_content of event_generator
    response_input,   \* history: the prompt handed to generate_content_stream
    feature_outcome,  \* history: how the call of run_feature ended
    gen,              \* the calls of generate_content_stream under way, one record
                      \* for each: position, prompt, full_text, chunks yielded
    calls             \* history: calls made to generate_content, generate_content_stream
                      \* and FeatureRegistry.run_feature, and the times event_generator
                      \* went on to save the assistant's answer

retryVars == <<max_retries, status, error_count, success_count, last_activity, rpc, attempt,
               last_exception, outcome, work_log, sleeps, runs, count_at_start>>

cacheVars == <<cache, ttl_seconds, max_size, now, nsets, cop, cret, last_set>>

routerVars == <<r_cur, r_prev>>

streamVars == <<spc, entry, sanitized_input, session_id, events, escaped, local_response,
                chunk_i, db, history, planner_response, planner_decision,
                feature_context, stream, stream_i, full_assistant_content,
                response_input, feature_outcome, gen, calls>>

vars == <<retryVars, cacheVars, routerVars, streamVars>>

\* Python's None where a string is expected, where an exception is expected and
\* where an outcome is expected.
None == "None"
NoException == [cls |-> "None", msg |-> <<>>, attempt |-> 0]
NoOutcome == [kind |-> "none"]

(***************************************************************************)
(* Bounds of the model.                                                    *)
(***************************************************************************)
MaxRetries == 3
MaxRuns == 2
MaxTime == 3
MaxSets == 2
MaxEvictSets == 11
\* The most set calls on the cache of the sweep specification: the nine it
\* begins after, a tenth input, one input stored again, and the input that
\* sets off the sweep.
MaxSweepSets == 12
\* The most messages the store of the session holds in the history
\* specification: beyond the window of ten.
MaxTurns == 14
\* The calls of generate_content_stream that run side by side, and the most
\* chunks the provider streams for one of them.
MaxGenRuns == 2
MaxChunks == 2


(***************************************************************************)
(*                         Strings                                         *)
(* A string is a sequence of symbols; a symbol is a whitespace character   *)
(* or a word.  A word written with a capital is the upper-case form of the *)
(* word written without.  A generated text is a sequence of character      *)
(* codes (integers).                                                       *)
(***************************************************************************)

Whitespace == {" "}

\* str.lower() on one symbol.
LowerSym(c) ==
    CASE c = "Q"      -> "q"
      [] c = "Hello"  -> "hello"
      [] c = "Status" -> "status"
      [] c = "Fast"   -> "fast"
      [] OTHER        -> c

\* str.lower()
Lower(s) == [i \in 1..Len(s) |-> LowerSym(s[i])]

RECURSIVE LStrip(_)
LStrip(s) == IF s # <<>> /\ Head(s) \in Whitespace THEN LStrip(Tail(s)) ELSE s

RECURSIVE RStrip(_)
RStrip(s) ==
    IF s # <<>> /\ s[Len(s)] \in Whitespace THEN RStrip(SubSeq(s, 1, Len(s) - 1)) ELSE s

\* str.strip()
Strip(s) == RStrip(LStrip(s))

\* A mode argument that is None.
NoneMode == <<None>>

\* `x or default` on a string argument: None and "" are falsy.
OrDefault(x, default) == IF x = NoneMode \/ x = <<>> THEN default ELSE x

\* The text of n characters tagged tag: character i is the code 1000 * tag + i.
Chars(tag, n) == [i \in 1..n |-> 1000 * tag + i]

(***************************************************************************)
(*                         ResponseCache                                   *)
(***************************************************************************)

DefaultTtl == 3600
DefaultMaxSize == 1000

\* hashlib.md5(...).hexdigest(): a fixed-width digest of the normalized
\* string, taken to be free of collisions, so the digest is identified with
\* the string it digests.
Md5(normalized) == normalized

\* A faulty variant: the input is trimmed but not lower-cased.
GenerateKey_NoLower(user_input, mode) ==
    Md5(Strip(OrDefault(user_input, <<>>)) \o <<"|">> \o OrDefault(mode, <<"standard">>))

\* ResponseCache._generate_key
GenerateKey(user_input, mode) ==
    LET ui == Lower(Strip(OrDefault(user_input, <<>>)))
        md == OrDefault(mode, <<"standard">>)
    IN  Md5(ui \o <<"|">> \o md)

\* The position of key in the dict, 0 when absent (dict.get).
Lookup(c, key) ==
    IF \E i \in 1..Len(c) : c[i].key = key
    THEN CHOOSE i \in 1..Len(c) : c[i].key = key
    ELSE 0

\* del self._cache[key]
Delete(c, key) ==
    LET i == Lookup(c, key)
    IN  IF i = 0 THEN c ELSE SubSeq(c, 1, i - 1) \o SubSeq(c, i + 1, Len(c))

\* A faulty variant: the assignment always adds an entry.
Assign_Append(c, key, data, t) ==
    Append(c, [key |-> key, data |-> data, timestamp |-> t])

\* self._cache[key] = value: an existing key keeps its place in the order,
\* a new key goes last.
Assign(c, key, data, t) ==
    LET i == Lookup(c, key)
        e == [key |-> key, data |-> data, timestamp |-> t]
    IN  IF i = 0 THEN Append(c, e) ELSE [c EXCEPT ![i] = e]

\* What get returns on a miss.
NoPayload == [none |-> TRUE]

\* A faulty variant: an entry exactly ttl old is already expired.
Expired_AtTtl(timestamp, t, ttl) == t - timestamp >= ttl

\* The TTL check of get: time.time() - entry["timestamp"] > self.ttl_seconds
Expired(timestamp, t, ttl) == t - timestamp > ttl

\* A faulty variant: an expired entry is deleted but its payload is returned.
Get_ReturnsExpired(c, ttl, t, user_input, mode) ==
    LET key == GenerateKey(user_input, mode)
        i == Lookup(c, key)
    IN  IF i = 0 THEN [cache |-> c, data |-> NoPayload]
        ELSE [cache |-> IF Expired(c[i].timestamp, t, ttl) THEN Delete(c, key) ELSE c,
              data |-> c[i].data]

\* ResponseCache.get at time t: the dict afterwards and the value returned.
Get(c, ttl, t, user_input, mode) ==
    LET key == GenerateKey(user_input, mode)
        i == Lookup(c, key)
    IN  IF i = 0 THEN [cache |-> c, data |-> NoPayload]
        ELSE IF Expired(c[i].timestamp, t, ttl)
             THEN [cache |-> Delete(c, key), data |-> NoPayload]
             ELSE [cache |-> c, data |-> c[i].data]

\* int(self.max_size * 0.1): the number of entries a sweep removes.
SweepCount(size) == size \div 10

\* A faulty variant: the sweep removes the entries inserted last.
Sweep_Newest(c, size) ==
    IF Len(c) >= size
    THEN SubSeq(c, 1, Len(c) - (IF SweepCount(size) < Len(c) THEN SweepCount(size) ELSE Len(c)))
    ELSE c

\* The capacity sweep of set: list(self._cache.keys())[:int(self.max_size * 0.1)]
\* are deleted when len(self._cache) >= self.max_size.
Sweep(c, size) ==
    IF Len(c) >= size
    THEN SubSeq(c, (IF SweepCount(size) < Len(c) THEN SweepCount(size) ELSE Len(c)) + 1, Len(c))
    ELSE c

\* ResponseCache.set at time t: the dict afterwards.
Set(c, size, t, user_input, response_data, mode) ==
    Assign(Sweep(c, size), GenerateKey(user_input, mode), response_data, t)

\* The payloads stored: the records the generation services store
\* ({"content": ..., "model": ...}).
Payloads == {[content |-> Chars(7, 4), model |-> "m1"],
             [content |-> Chars(8, 0), model |-> "m2"]}

NoCall == [op |-> "none"]

\* A call of response_cache.get with an input of xs and a mode of ms.
CacheGetIn(xs, ms) ==
    \E x \in xs, m \in ms :
        LET r == Get(cache, ttl_seconds, now, x, m)
        IN  /\ cache' = r.cache
            /\ cret' = r.data
            /\ cop' = [op |-> "get", input |-> x, mode |-> m, time |-> now]
            /\ UNCHANGED <<ttl_seconds, max_size, now, nsets, last_set>>

\* A call of response_cache.set with an input of xs, a mode of ms and a
\* payload of ds; at most bound calls are made.
CacheSetUpTo(bound, xs, ms, ds) ==
    /\ nsets < bound
    /\ \E x \in xs, m \in ms, d \in ds :
        /\ cache' = Set(cache, max_size, now, x, d, m)
        /\ last_set' = [op |-> "set", input |-> x, mode |-> m, data |-> d, time |-> now]
    /\ nsets' = nsets + 1
    /\ cop' = NoCall
    /\ cret' = NoPayload
    /\ UNCHANGED <<ttl_seconds, max_size, now>>

CacheSetIn(xs, ms, ds) == CacheSetUpTo(MaxSets, xs, ms, ds)

\* A call of response_cache.clear
CacheClear ==
    /\ cache # <<>>
    /\ cache' = <<>>
    /\ last_set' = NoCall
    /\ cop' = NoCall
    /\ cret' = NoPayload
    /\ UNCHANGED <<ttl_seconds, max_size, now, nsets>>

\* Time passes.
Tick ==
    /\ now < MaxTime
    /\ now' = now + 1
    /\ UNCHANGED <<cache, ttl_seconds, max_size, nsets, cop, cret, last_set>>

\* The inputs and modes of the cache specification: two keys.
CacheInputs == {<<"hello">>, <<"q">>}
CacheModes == {<<"standard">>}

\* The inputs and modes of the key-derivation specification: the same text in
\* different case and with surrounding whitespace, another text, and a mode
\* that is absent, empty, "standard" or another one.
KeyInputs == {<<"hello">>, <<"Hello", " ">>, <<" ", "q">>, <<"Q">>}
KeyModes == {NoneMode, <<>>, <<"standard">>, <<"fast">>}

\* The inputs and modes of the isolation specification: one text in two
\* spellings, another text, and texts and modes that hold the character "|"
\* that _generate_key puts between the input and the mode.
IsolateInputs == {<<"status">>, <<" ", "Status">>, <<"a">>, <<"a", "|", "b">>}
IsolateModes == {NoneMode, <<"standard">>, <<"fast">>, <<"b", "|", "standard">>}

\* The inputs of the capacity specification: the i-th input ever used is
\* EvictInput(i).
KeyNames == <<"k1", "k2", "k3", "k4", "k5", "k6", "k7", "k8", "k9", "k10", "k11", "k12",
              "k13", "k14", "k15", "k16">>
EvictInput(i) == <<KeyNames[i]>>
EvictPayloads == {[content |-> Chars(7, 4), model |-> "m1"]}

\* The inputs a call of the capacity specification is made with: the next
\* new input, and the inputs of the entries that are first and last in the
\* order of the dict.
EvictInputs ==
    {EvictInput(nsets + 1)}
    \cup {EvictInput(i) : i \in {k \in 1..nsets :
              Lookup(cache, GenerateKey(EvictInput(k), <<"standard">>)) \in {1, Len(cache)}}}

\* The capacities tried: one below ten, where int(max_size * 0.1) is 0, and
\* ten, where it is 1.
EvictSizes == {2, 10}

EvictSet == CacheSetUpTo(MaxEvictSets, EvictInputs, CacheModes, EvictPayloads)

EvictGet == CacheGetIn(EvictInputs, CacheModes)

SweepSet == CacheSetUpTo(MaxSweepSets, EvictInputs, CacheModes, EvictPayloads)

InitCacheVars ==
    /\ cache = <<>>
    /\ now = 0
    /\ nsets = 0
    /\ cop = NoCall
    /\ cret = NoPayload
    /\ last_set = NoCall

\* The constructor arguments tried.
Ttls == {1, 2}
MaxSizes == {2, 10}


(***************************************************************************)
(*                         SmartRouter                                     *)
(***************************************************************************)

\* The lengths of the canned texts.
StatusPrefixLen == 308
StatusSuffixLen == 2
IdentityLen == 246
GreetingLen == 73

\* datetime.datetime.now().strftime("%H:%M:%S"): two digits each of the hour,
\* the minute and the second of the day; the code 10 is the colon.
TimeText(t) ==
    LET sod == t % 86400
        h == sod \div 3600
        m == (sod % 3600) \div 60
        sec == sod % 60
    IN  <<h \div 10, h % 10, 10, m \div 10, m % 10, 10, sec \div 10, sec % 10>>

\* SmartRouter.get_system_status_response at time t
StatusResponse(t) ==
    [type |-> "status_report",
     content |-> Chars(1, StatusPrefixLen) \o TimeText(t) \o Chars(2, StatusSuffixLen)]

\* SmartRouter.get_identity_response
IdentityResponse == [type |-> "identity", content |-> Chars(3, IdentityLen)]

\* The greeting of route_request.
GreetingResponse == [content |-> Chars(4, GreetingLen)]

StatusKeywords == {<<"status">>, <<"system", " ", "status">>, <<"health">>, <<"uptime">>}
IdentityPatterns == {<<"who", " ", "are", " ", "you">>, <<"what", " ", "are", " ", "you">>,
                     <<"identity">>}
Greetings == {<<"hello">>, <<"hi">>, <<"hey">>, <<"greetings">>}

\* pat in s, for strings
Contains(s, pat) ==
    \E i \in 1..(Len(s) - Len(pat) + 1) : SubSeq(s, i, i + Len(pat) - 1) = pat

\* What route_request returns when the LLM is needed.
NoRoute == [none |-> TRUE]

\* {**d, "source": src}
WithSource(d, src) ==
    [k \in (DOMAIN d) \cup {"source"} |-> IF k = "source" THEN src ELSE d[k]]

\* The truth value of what get returned: None and an empty dict are false.
Truthy(d) == d # NoPayload /\ DOMAIN d # {}

\* A faulty variant: the identity patterns must match the whole input.
LocalPatterns_ExactIdentity(t, normalized_input) ==
    IF normalized_input \in StatusKeywords
    THEN WithSource(StatusResponse(t), "local")
    ELSE IF normalized_input \in IdentityPatterns
    THEN WithSource(IdentityResponse, "local")
    ELSE IF normalized_input \in Greetings
    THEN WithSource(GreetingResponse, "local")
    ELSE NoRoute

\* The local patterns of route_request, in their order.
LocalPatterns(t, normalized_input) ==
    IF normalized_input \in StatusKeywords
    THEN WithSource(StatusResponse(t), "local")
    ELSE IF \E x \in IdentityPatterns : Contains(normalized_input, x)
    THEN WithSource(IdentityResponse, "local")
    ELSE IF normalized_input \in Greetings
    THEN WithSource(GreetingResponse, "local")
    ELSE NoRoute

\* A faulty variant: the local patterns are tried before the cache.
RouteRequest_PatternsFirst(c, ttl, t, user_input, mode) ==
    LET local == LocalPatterns(t, Strip(Lower(user_input)))
        got == Get(c, ttl, t, user_input, mode)
    IN  IF local # NoRoute THEN [cache |-> c, result |-> local]
        ELSE IF Truthy(got.data)
        THEN [cache |-> got.cache, result |-> WithSource(got.data, "cache")]
        ELSE [cache |-> got.cache, result |-> NoRoute]

\* A faulty variant: an answer of the local patterns is stored in the cache.
RouteRequest_StoresLocal(c, ttl, t, user_input, mode) ==
    LET normalized_input == Strip(Lower(user_input))
        got == Get(c, ttl, t, user_input, mode)
        local == LocalPatterns(t, normalized_input)
    IN  IF Truthy(got.data)
        THEN [cache |-> got.cache, result |-> WithSource(got.data, "cache")]
        ELSE [cache |-> IF local = NoRoute THEN got.cache
                        ELSE Assign(got.cache, GenerateKey(user_input, mode),
                                    [content |-> <<>>, model |-> "local"], t),
              result |-> local]

\* SmartRouter.route_request at time t: the cache afterwards and the result.
RouteRequest(c, ttl, t, user_input, mode) ==
    LET normalized_input == Strip(Lower(user_input))
        got == Get(c, ttl, t, user_input, mode)
    IN  IF Truthy(got.data)
        THEN [cache |-> got.cache, result |-> WithSource(got.data, "cache")]
        ELSE [cache |-> got.cache, result |-> LocalPatterns(t, normalized_input)]

\* The inputs the router is called with: a status keyword (in capitals, with
\* whitespace), a greeting, an identity query and a question for the LLM; the
\* callers leave the mode at its default.
RouteInputs == {<<" ", "Status">>, <<"hello">>, <<"my", " ", "identity">>, <<"q">>}
RouteModes == {<<"standard">>}

\* The prompts whose responses the generation services store.
StoredInputs == {<<"status">>, <<"q">>}

\* A call of smart_router.route_request
Route ==
    \E x \in RouteInputs, m \in RouteModes :
        LET r == RouteRequest(cache, ttl_seconds, now, x, m)
            i == Lookup(cache, GenerateKey(x, m))
            \* stamp: the timestamp of the entry stored for (x, m) at the call
            call == [op |-> "route", input |-> x, mode |-> m, time |-> now,
                     stamp |-> IF i = 0 THEN -1 ELSE cache[i].timestamp,
                     result |-> r.result]
        IN  /\ cache' = r.cache
            /\ cop' = [op |-> "get", input |-> x, mode |-> m, time |-> now]
            /\ cret' = Get(cache, ttl_seconds, now, x, m).data
            /\ r_prev' = IF r_cur.op = "route" /\ r_cur.input = x /\ r_cur.mode = m
                         THEN r_cur ELSE NoCall
            /\ r_cur' = call
            /\ UNCHANGED <<ttl_seconds, max_size, now, nsets, last_set>>

\* A set or a clear ends the run of route calls made on an unchanged cache.
ForgetRoutes == r_cur' = NoCall /\ r_prev' = NoCall

InitRouterVars ==
    /\ r_cur = NoCall
    /\ r_prev = NoCall

(***************************************************************************)
(*   POST /api/stream (main.py) and AgentWorkflow.execute_workflow_stream  *)
(*                                                                         *)
(* The content of a thought, action, error or closing event is the fixed   *)
(* text of the code (its formatted parts left out); the content of a token *)
(* is a generated text.                                                    *)
(***************************************************************************)

\* chunk_size of event_generator
ChunkSize == 100

\* The number of messages the history is trimmed to.
HistoryWindow == 10

ThoughtEvent(c) == [type |-> "thought", content |-> c]
\* A faulty variant: the start of a feature is announced as a thought.
ActionEvent_AsThought(c) == [type |-> "thought", content |-> c]
ActionEvent(c) == [type |-> "action", content |-> c]
TokenEvent(c) == [type |-> "token", content |-> c]
ErrorEvent(c) == [type |-> "error", content |-> c]
\* The final event of the local path of event_generator.
SourceEvent(src) ==
    [type |-> "tool_output",
     content |-> CASE src = "cache" -> "Source: cache"
                   [] src = "local" -> "Source: local"
                   [] OTHER -> "Source: optimized"]

\* html.escape of one character
HtmlEscape(c) ==
    CASE c = "&" -> "&amp;"
      [] c = "<" -> "&lt;"
      [] c = ">" -> "&gt;"
      [] c = "\"" -> "&quot;"
      [] c = "'" -> "&#x27;"
      [] OTHER -> c

NotNul(c) == c # "NUL"

\* SecurityService.sanitize_input; "NUL" is the null byte.
SanitizeInput(s) ==
    IF s = <<>> THEN <<>>
    ELSE SelectSeq([i \in 1..Len(s) |-> HtmlEscape(s[i])], NotNul)

\* The conversation store of one session.
EmptyDb == [messages |-> <<>>, interactions |-> <<>>]

\* db_manager.add_message: the row is stored, or the error of the database
\* is swallowed and nothing is stored.
AddMessage(d, stored, role, content) ==
    IF stored
    THEN [d EXCEPT !.messages = Append(@, [role |-> role, content |-> content])]
    ELSE d

\* db_manager.add_interaction, likewise.
AddInteraction(d, stored, input, response) ==
    IF stored
    THEN [d EXCEPT !.interactions =
              Append(@, [user_input |-> input, assistant_response |-> response])]
    ELSE d

\* db_manager.get_session_history: the rows, or [] on a swallowed error.
GetSessionHistory(d, ok) == IF ok THEN d.messages ELSE <<>>

\* A faulty variant: the first ten messages are kept.
Trim_Oldest(h) ==
    IF Len(h) > HistoryWindow THEN SubSeq(h, 1, HistoryWindow) ELSE h

\* history[-10:] if len(history) > 10 else history
Trim(h) ==
    IF Len(h) > HistoryWindow THEN SubSeq(h, Len(h) - HistoryWindow + 1, Len(h)) ELSE h

\* What the store holds of the session when the request comes in: nothing,
\* or an earlier turn.
StoredHistories ==
    {<<>>,
     <<[role |-> "user", content |-> <<"q0">>],
       [role |-> "assistant", content |-> Chars(9, 3)]>>}

\* ---- the planner's answer ----

\* The JSON documents the planner's text can be, by name, and their values.
\* An object is [kind |-> "object", fields |-> the dict].
JsonObject(f) == [kind |-> "object", fields |-> f]
JsonDocs ==
    [j_answer      |-> JsonObject([action |-> "ANSWER_DIRECTLY", feature_name |-> None,
                                   reason |-> "r"]),
     j_run_known   |-> JsonObject([action |-> "RUN_FEATURE",
                                   feature_name |-> "generate_ci_and_docker",
                                   reason |-> "r"]),
     j_run_unknown |-> JsonObject([action |-> "RUN_FEATURE", feature_name |-> "deploy",
                                   reason |-> "r"]),
     j_run_noname  |-> JsonObject([action |-> "RUN_FEATURE"]),
     j_other       |-> JsonObject([action |-> "SEARCH", reason |-> "r"]),
     j_no_action   |-> JsonObject([reason |-> "r"]),
     j_list        |-> [kind |-> "list"],
     j_number      |-> [kind |-> "number"],
     j_string      |-> [kind |-> "string"],
     j_null        |-> [kind |-> "null"]]

\* json.loads: the value of a text that is one JSON document; any other text
\* (prose, the empty text) raises.
JsonLoads(text) ==
    IF Len(text) = 1 /\ text[1] \in DOMAIN JsonDocs
    THEN [ok |-> TRUE, value |-> JsonDocs[text[1]]]
    ELSE [ok |-> FALSE]

\* "FENCE_JSON" is the opening fence ```json and "FENCE" the fence ```.
NotFence(c) == c \notin {"FENCE_JSON", "FENCE"}

\* raw.replace("```json", "").replace("```", "").strip()
CleanJson(raw) == Strip(SelectSeq(raw, NotFence))

\* d.get(k) of a dict
DictGet(f, k) == IF k \in DOMAIN f THEN f[k] ELSE None

\* planner_decision before the planner's text is parsed
DefaultDecision == JsonObject([action |-> "ANSWER_DIRECTLY"])

\* The outcomes of llm_service.generate_content for the planner: it raises
\* (service not initialized, API error), it returns None (a service whose
\* generate_content is a stub), or it returns a response whose content is a
\* text, None, or missing.
PlannerTexts ==
    {<<"j_answer">>, <<"FENCE_JSON", "\n", "j_answer", "\n", "FENCE">>,
     <<"j_run_known">>, <<"j_run_unknown">>, <<"j_run_noname">>, <<"j_other">>,
     <<"j_no_action">>, <<"j_list">>, <<"j_number">>, <<"j_string">>, <<"j_null">>,
     <<"prose">>, <<>>}
PlannerOutcomes ==
    {[kind |-> "raises"], [kind |-> "returns_none"], [kind |-> "content_none"],
     [kind |-> "content_missing"], [kind |-> "never_returns"]}
    \cup {[kind |-> "response", content |-> t] : t \in PlannerTexts}

\* settings.llm_provider, and the kinds of API key a deployment is
\* configured with: a placeholder (empty, or holding PLACEHOLDER or MOCK), a
\* key of at most 20 characters, a longer key.
Providers == {"gemini", "openai", "claude"}
ApiKeys == {"placeholder", "short", "long"}

\* LLMServiceFactory.create_service: the mock service for a placeholder key,
\* otherwise the service of the provider.
CreateService(provider, api_key) == IF api_key = "placeholder" THEN "mock" ELSE provider

\* health_check of the service: what LLMServiceManager.initialize returns.
HealthCheck(service, api_key) ==
    CASE service = "mock"   -> TRUE
      [] service = "gemini" -> api_key = "long"
      [] service = "openai" -> TRUE
      [] OTHER              -> FALSE

\* What generate_content of the service can do with the planner prompt: the
\* mock service returns one of its two decisions as content; the Gemini
\* service returns the text of the API (or of the router) as content,
\* raises LLMError or waits for the API; the body of the OpenAI and Claude
\* services is `pass`, which returns None.
GenerateOutcomes(service) ==
    CASE service = "mock" ->
             {[kind |-> "response", content |-> <<"j_answer">>],
              [kind |-> "response", content |-> <<"j_run_known">>]}
      [] service = "gemini" ->
             {[kind |-> "raises"], [kind |-> "never_returns"]}
             \cup {[kind |-> "response", content |-> t] : t \in PlannerTexts}
      [] OTHER -> {[kind |-> "returns_none"]}

\* planner_response.get("content", "")
PlannerResponseRaw(o) == IF o.kind = "response" THEN o.content ELSE <<>>

\* Lines 118-125 of the workflow: the decision after the parse, and whether
\* the parse and the Step 3 thought went through ("complete") or an
\* exception was caught ("malformed").  json.loads assigns planner_decision
\* before the thought is formatted, so a value that parses stays the
\* decision whatever it is.
ParseDecision(o) ==
    IF o.kind = "content_none"
    THEN [decision |-> DefaultDecision, thought |-> "malformed"]
    ELSE LET parsed == JsonLoads(CleanJson(PlannerResponseRaw(o)))
         IN  IF ~parsed.ok
             THEN [decision |-> DefaultDecision, thought |-> "malformed"]
             ELSE IF parsed.value.kind = "object"
                     /\ "action" \in DOMAIN parsed.value.fields
             THEN [decision |-> parsed.value, thought |-> "complete"]
             ELSE [decision |-> parsed.value, thought |-> "malformed"]

\* The names FeatureRegistry.run_feature knows.
KnownFeatures == {"generate_ci_and_docker"}

\* ---- the synthesis stream ----

StreamChunk(text, reason) ==
    [raises |-> FALSE, hangs |-> FALSE, content |-> text, finish_reason |-> reason]
StreamRaises == [raises |-> TRUE, hangs |-> FALSE, content |-> <<>>, finish_reason |-> "none"]
\* The next item never comes: the service awaits an answer that does not arrive.
StreamHangs == [raises |-> FALSE, hangs |-> TRUE, content |-> <<>>, finish_reason |-> "none"]

\* What llm_service.generate_content_stream can produce: chunks with text,
\* an empty chunk, the stop marker (with a chunk after it that is never
\* read), the end of the stream without a marker, the error marker of the
\* services, an exception, and an item that never comes.
StreamScripts ==
    {<<StreamChunk(Chars(5, 2), "none"), StreamChunk(Chars(6, 3), "none"),
       StreamChunk(<<>>, "stop")>>,
     <<StreamChunk(<<>>, "none"), StreamChunk(Chars(5, 2), "none"),
       StreamChunk(Chars(6, 3), "stop"), StreamChunk(Chars(5, 2), "none")>>,
     <<StreamChunk(<<>>, "stop")>>,
     <<StreamChunk(Chars(5, 2), "none")>>,
     <<>>,
     <<StreamChunk(Chars(5, 2), "none"), StreamChunk(Chars(6, 3), "error")>>,
     <<StreamChunk(Chars(6, 3), "error")>>,
     <<StreamChunk(Chars(5, 2), "none"), StreamRaises>>,
     <<StreamRaises>>,
     <<StreamChunk(Chars(5, 2), "none"), StreamHangs>>}

\* ---- the generation service ----

GenRuns == 1..MaxGenRuns

\* A call of generate_content_stream that has not begun.
IdleGen == [pc |-> "idle", prompt |-> <<>>, total |-> 0, yielded |-> 0, full_text |-> <<>>]

\* The prompts of the calls: the same question written in two ways, and a
\* greeting the router answers.
GenPrompts == {<<"q">>, <<" ", "Q">>, <<"hello">>}

\* chunk.text of the j-th chunk the provider streams to call r.
GenChunkText(r, j) == <<100 * r + j>>

\* What the service stores when the stream of the provider is exhausted.
GenPayload(full_text) == [content |-> full_text, model |-> "gemini"]

\* ---- the request ----

\* The raw inputs of a request: a greeting, a status keyword (in capitals,
\* with whitespace), a question for the LLM with a character that is
\* escaped, and a prompt whose response the cache may hold.
UserInputs == {<<"hello">>, <<" ", "Status">>, <<"q", "<">>, <<"c">>}
SessionIds == {None, "s1"}

\* The entries the cache may hold when the request comes in: a payload of
\* two whole chunks and one with no content.
StreamStoredInputs == {<<"c">>}
StreamPayloads ==
    {[content |-> Chars(7, 2 * ChunkSize), model |-> "m1"],
     [content |-> Chars(8, 0), model |-> "m2"]}

RECURSIVE TokenText(_)
\* The concatenated content of the token events of evs.
TokenText(evs) ==
    IF Len(evs) = 0 THEN <<>>
    ELSE (IF Head(evs).type = "token" THEN Head(evs).content ELSE <<>>)
         \o TokenText(Tail(evs))

NotToken(e) == e.type # "token"

\* A faulty variant: an error event takes back the tokens yielded so far.
WorkflowYields_Rollback(evs) ==
    /\ events' = IF \E i \in 1..Len(evs) : evs[i].type = "error"
                 THEN SelectSeq(events, NotToken) \o evs
                 ELSE events \o evs
    /\ full_assistant_content' =
           IF entry = "api" THEN full_assistant_content \o TokenText(evs)
           ELSE full_assistant_content

\* A faulty variant: the events of a step reach the consumer in the
\* reverse of the order in which they were yielded.
WorkflowYields_Reversed(evs) ==
    /\ events' = events \o [i \in 1..Len(evs) |-> evs[Len(evs) + 1 - i]]
    /\ full_assistant_content' =
           IF entry = "api" THEN full_assistant_content \o TokenText(evs)
           ELSE full_assistant_content

\* The workflow yields evs.  On the api entry event_generator forwards each
\* event and adds the content of the tokens to full_assistant_content.
WorkflowYields(evs) ==
    /\ events' = events \o evs
    /\ full_assistant_content' =
           IF entry = "api" THEN full_assistant_content \o TokenText(evs)
           ELSE full_assistant_content

\* The workflow generator is exhausted: event_generator goes on to persist,
\* a direct caller is done.
AfterWorkflow == IF entry = "api" THEN "persist" ELSE "done"

StepFive == ThoughtEvent("Step 5: Synthesizing final response output...")

\* POST /api/stream up to the StreamingResponse: sanitize, save the user
\* message.
StreamProcess ==
    /\ spc = "idle"
    /\ \E raw \in UserInputs, sid \in SessionIds, stored \in BOOLEAN :
         LET clean == SanitizeInput(raw)
         IN  /\ entry' = "api"
             /\ sanitized_input' = clean
             /\ session_id' = sid
             /\ db' = IF sid # None
                      THEN AddMessage(db, stored, "user", clean)
                      ELSE db
             /\ spc' = "event_generator"
    /\ UNCHANGED <<events, escaped, gen, response_input, feature_outcome, local_response, chunk_i, history, planner_response, planner_decision,
                 feature_context, stream, stream_i, full_assistant_content, calls,
                 cache, ttl_seconds, max_size, now, nsets, cop, cret, last_set>>

\* execute_workflow_stream called by itself (as test_stream_logic.py does).
ExecuteWorkflowStreamIn(xs, sids) ==
    /\ spc = "idle"
    /\ \E x \in xs, sid \in sids :
         /\ entry' = "direct"
         /\ sanitized_input' = x
         /\ session_id' = sid
         /\ spc' = "workflow"
    /\ UNCHANGED <<events, escaped, gen, response_input, feature_outcome, local_response, chunk_i, db, history,
                 planner_response, planner_decision, feature_context, stream, stream_i,
                 full_assistant_content, calls, cache, ttl_seconds, max_size, now,
                 nsets, cop, cret, last_set>>

ExecuteWorkflowStream == ExecuteWorkflowStreamIn(UserInputs, SessionIds)

\* event_generator: the router check and the thought of the local path.
ApiRouteCheck ==
    /\ spc = "event_generator"
    /\ LET r == RouteRequest(cache, ttl_seconds, now, sanitized_input, <<"standard">>)
       IN  /\ cache' = r.cache
           /\ IF r.result # NoRoute
              THEN /\ events' = Append(events,
                         ThoughtEvent("Retrieving from high-speed local logic..."))
                   /\ local_response' = r.result
                   /\ full_assistant_content' = r.result.content
                   /\ chunk_i' = 0
                   /\ spc' = "local_chunks"
              ELSE /\ spc' = "workflow"
                   /\ UNCHANGED <<events, local_response, full_assistant_content, chunk_i>>
    /\ UNCHANGED <<entry, sanitized_input, session_id, escaped, gen, response_input, feature_outcome, db, history, planner_response, planner_decision,
                 feature_context, stream, stream_i, calls, ttl_seconds, max_size,
                 now, nsets, cop, cret, last_set>>

\* event_generator: one round of the chunk loop.
LocalChunk ==
    /\ spc = "local_chunks"
    /\ chunk_i < Len(local_response.content)
    /\ LET content == local_response.content
           last == IF chunk_i + ChunkSize < Len(content)
                   THEN chunk_i + ChunkSize ELSE Len(content)
       IN  events' = Append(events, TokenEvent(SubSeq(content, chunk_i + 1, last)))
    /\ chunk_i' = chunk_i + ChunkSize
    /\ UNCHANGED <<spc, entry, sanitized_input, session_id, escaped, gen, response_input, feature_outcome, local_response, db,
                 history, planner_response, planner_decision, feature_context, stream, stream_i,
                 full_assistant_content, calls, cache, ttl_seconds, max_size, now,
                 nsets, cop, cret, last_set>>

\* event_generator: the final event of the local path.
LocalFinal ==
    /\ spc = "local_chunks"
    /\ chunk_i >= Len(local_response.content)
    /\ events' = Append(events, SourceEvent(DictGet(local_response, "source")))
    /\ spc' = "local_persist"
    /\ UNCHANGED <<entry, sanitized_input, session_id, escaped, gen, response_input, feature_outcome, local_response, chunk_i, db,
                 history, planner_response, planner_decision, feature_context, stream, stream_i,
                 full_assistant_content, calls, cache, ttl_seconds, max_size, now,
                 nsets, cop, cret, last_set>>

\* event_generator: the local path saves the answer and returns.
LocalPersist ==
    /\ spc = "local_persist"
    /\ \E stored_m \in BOOLEAN, stored_i \in BOOLEAN :
         db' = IF session_id # None
               THEN AddInteraction(
                        AddMessage(db, stored_m, "assistant", full_assistant_content),
                        stored_i, sanitized_input, full_assistant_content)
               ELSE db
    /\ calls' = IF session_id # None
               THEN [calls EXCEPT !.persist = @ + 1]
               ELSE calls
    /\ spc' = "done"
    /\ UNCHANGED <<entry, sanitized_input, session_id, events, escaped, gen, response_input, feature_outcome, local_response,
                 chunk_i, history, planner_response, planner_decision, feature_context, stream,
                 stream_i, full_assistant_content, cache, ttl_seconds,
                 max_size, now, nsets, cop, cret, last_set>>

\* execute_workflow_stream: the router check, then the thought of the fast
\* path or the Step 1 thought.
WorkflowRouteCheck ==
    /\ spc = "workflow"
    /\ LET r == RouteRequest(cache, ttl_seconds, now, sanitized_input, <<"standard">>)
       IN  /\ cache' = r.cache
           /\ IF r.result # NoRoute
              THEN /\ WorkflowYields(<<ThoughtEvent(
                         "Query matched local knowledge base. Executing rapid response protocol.")>>)
                   /\ local_response' = r.result
                   /\ spc' = "workflow_local"
              ELSE /\ WorkflowYields(<<ThoughtEvent(
                         "Step 1: Retrieving conversation history from PostgreSQL...")>>)
                   /\ spc' = "load_history"
                   /\ UNCHANGED local_response
    /\ UNCHANGED <<entry, sanitized_input, session_id, escaped, gen, response_input, feature_outcome, chunk_i, db, history,
                 planner_response, planner_decision, feature_context, stream, stream_i, calls,
                 ttl_seconds, max_size, now, nsets, cop, cret, last_set>>

\* execute_workflow_stream: the token of the fast path, and return.
WorkflowLocalToken ==
    /\ spc = "workflow_local"
    /\ WorkflowYields(<<TokenEvent(local_response.content)>>)
    /\ spc' = AfterWorkflow
    /\ UNCHANGED <<entry, sanitized_input, session_id, escaped, gen, response_input, feature_outcome, local_response, chunk_i, db,
                 history, planner_response, planner_decision, feature_context, stream, stream_i,
                 calls, cache, ttl_seconds, max_size, now, nsets, cop, cret,
                 last_set>>

\* execute_workflow_stream, Step 1: load and trim the history of the
\* session.  get_session_history swallows the errors of the database and
\* nothing else in the block raises, so the Step 1 Warning is never yielded.
LoadHistory ==
    /\ spc = "load_history"
    /\ IF session_id # None
       THEN \E ok \in BOOLEAN :
              LET trimmed == Trim(GetSessionHistory(db, ok))
              IN  /\ history' = trimmed
                  /\ WorkflowYields(<<ThoughtEvent("Step 1 Complete: Loaded messages for context.")>>)
       ELSE UNCHANGED <<history, events, full_assistant_content>>
    /\ spc' = "plan"
    /\ UNCHANGED <<entry, sanitized_input, session_id, escaped, gen, response_input, feature_outcome, local_response, chunk_i, db,
                 planner_response, planner_decision, feature_context, stream, stream_i, calls, cache,
                 ttl_seconds, max_size, now, nsets, cop, cret, last_set>>

\* execute_workflow_stream, Steps 2 to 4 up to the call of the feature,
\* when generate_content does o: the answer is parsed and the decision read.
PlanWith(o) ==
    /\ spc = "plan"
    /\   LET before ==
                 <<ThoughtEvent("Step 2: Appending latest input to active memory buffer..."),
                   ThoughtEvent("Step 3: Consulting AI Planner...")>>
             p == ParseDecision(o)
             step3 ==
                 ThoughtEvent(
                     IF p.thought = "complete"
                     THEN "Step 3 Complete: Intent identified."
                     ELSE "Step 3 Warning: Planner response malformed. Defaulting to direct answer block.")
         IN  /\ planner_response' = o
             /\ IF o.kind = "never_returns"
                THEN \* the await of generate_content has no deadline
                     /\ WorkflowYields(before)
                     /\ spc' = "blocked"
                     /\ UNCHANGED planner_decision
                ELSE IF o.kind = "raises"
                THEN /\ WorkflowYields(before \o <<ErrorEvent("LLMError")>>)
                     /\ spc' = AfterWorkflow
                     /\ UNCHANGED planner_decision
                ELSE IF o.kind = "returns_none"
                THEN \* planner_response.get on None
                     /\ WorkflowYields(before \o <<ErrorEvent("AttributeError")>>)
                     /\ spc' = AfterWorkflow
                     /\ UNCHANGED planner_decision
                ELSE IF p.decision.kind # "object"
                THEN \* planner_decision.get on a list, a number, a string or None
                     /\ WorkflowYields(before \o <<step3, ErrorEvent("AttributeError")>>)
                     /\ spc' = AfterWorkflow
                     /\ planner_decision' = p.decision
                ELSE IF DictGet(p.decision.fields, "action") = "RUN_FEATURE"
                THEN /\ WorkflowYields(before \o
                           <<step3,
                             ThoughtEvent("Step 4: Initializing specialized engine..."),
                             ActionEvent("Executing module")>>)
                     /\ spc' = "feature"
                     /\ planner_decision' = p.decision
                ELSE /\ WorkflowYields(before \o <<step3, StepFive>>)
                     /\ spc' = "open_stream"
                     /\ planner_decision' = p.decision
    /\ calls' = [calls EXCEPT !.generate = @ + 1]
    /\ UNCHANGED <<entry, sanitized_input, session_id, escaped, gen, response_input, feature_outcome, local_response, chunk_i, db,
                 history, feature_context, stream, stream_i>>

\* The planner step with a generation service that does any of the things
\* a service can do.
Plan ==
    /\ \E o \in PlannerOutcomes : PlanWith(o)
    /\ UNCHANGED <<cache, ttl_seconds, max_size, now, nsets, cop, cret, last_set>>

\* FeatureRegistry.run_feature: the text the known feature returns, and the
\* ERROR text for any other name.
FeatureResult(feature_name) ==
    IF feature_name \in KnownFeatures
    THEN <<"SUCCESS: DevOps stack generated (Dockerfile, docker-compose.yml, ci.yml, README update).">>
    ELSE <<"ERROR: Feature '", feature_name, "' not found.">>

\* str(feat_err) of an exception the known feature raises while it writes
\* its files.
FeatureError == <<"[Errno 13] Permission denied: 'Dockerfile'">>

\* feature_context after the call returned, and after it raised.
FeatureResultContext(feature_name, feature_result) ==
    <<"\n\nFEATURE EXECUTION RESULT (", feature_name, "):\n">> \o feature_result
FeatureFailedContext(err) == <<"\n\nFEATURE EXECUTION FAILED: ">> \o err

\* full_context, and response_input = full_context + feature_context.
FullContext(history_str, user_input) == [history |-> history_str, user |-> user_input]
ResponseInput(full_context, feat_context) == [context |-> full_context, feature |-> feat_context]
NoPrompt == ResponseInput(FullContext(<<>>, <<>>), <<>>)

\* A faulty variant: an exception of the feature ends the run with an error
\* event.
RunFeature_Aborts ==
    /\ spc = "feature"
    /\ \E raises \in BOOLEAN :
         LET feature_name == DictGet(planner_decision.fields, "feature_name")
             failed == feature_name \in KnownFeatures /\ raises
         IN  IF failed
             THEN /\ feature_context' = <<>>
                  /\ feature_outcome' = "raised"
                  /\ WorkflowYields(<<ErrorEvent("Exception")>>)
                  /\ spc' = AfterWorkflow
             ELSE /\ feature_context' =
                         FeatureResultContext(feature_name, FeatureResult(feature_name))
                  /\ feature_outcome' =
                         IF feature_name \in KnownFeatures THEN "success" ELSE "not_found"
                  /\ WorkflowYields(
                         <<ThoughtEvent("Step 4 Complete: Feature execution successful."),
                           StepFive>>)
                  /\ spc' = "open_stream"
    /\ calls' = [calls EXCEPT !.feature = @ + 1]
    /\ UNCHANGED <<entry, sanitized_input, session_id, escaped, gen, response_input, local_response,
                 chunk_i, db, history, planner_response, planner_decision, stream, stream_i,
                 cache, ttl_seconds, max_size, now, nsets, cop, cret, last_set>>

\* execute_workflow_stream, Step 4: run the feature.  run_feature returns an
\* ERROR text for a name it does not know; only the known feature runs code
\* that can raise.
RunFeature ==
    /\ spc = "feature"
    /\ \E raises \in BOOLEAN :
         LET feature_name == DictGet(planner_decision.fields, "feature_name")
             failed == feature_name \in KnownFeatures /\ raises
         IN  /\ feature_context' =
                    IF failed
                    THEN FeatureFailedContext(FeatureError)
                    ELSE FeatureResultContext(feature_name, FeatureResult(feature_name))
             /\ feature_outcome' =
                    IF failed THEN "raised"
                    ELSE IF feature_name \in KnownFeatures THEN "success"
                    ELSE "not_found"
             /\ WorkflowYields(
                    <<ThoughtEvent(IF failed
                                   THEN "Step 4 Error: Feature execution failed. Explaining issue."
                                   ELSE "Step 4 Complete: Feature execution successful."),
                      StepFive>>)
    /\ calls' = [calls EXCEPT !.feature = @ + 1]
    /\ spc' = "open_stream"
    /\ UNCHANGED <<entry, sanitized_input, session_id, escaped, gen, response_input, local_response,
                 chunk_i, db, history, planner_response, planner_decision, stream, stream_i,
                 cache, ttl_seconds, max_size, now, nsets, cop, cret, last_set>>

\* execute_workflow_stream, Step 5: the synthesis stream is opened, and the
\* service will produce the items of script.
OpenStreamWith(script) ==
    /\ spc = "open_stream"
    /\ stream' = script
    /\ stream_i' = 0
    /\ response_input' = ResponseInput(FullContext(history, sanitized_input), feature_context)
    /\ calls' = [calls EXCEPT !.stream = @ + 1]
    /\ spc' = "synthesis"
    /\ UNCHANGED <<entry, sanitized_input, session_id, events, escaped, gen, feature_outcome, local_response,
                 chunk_i, db, history, planner_response, planner_decision, feature_context,
                 full_assistant_content>>

\* The synthesis stream of a generation service that produces any of the
\* scripts.
OpenStream ==
    /\ \E script \in StreamScripts : OpenStreamWith(script)
    /\ UNCHANGED <<cache, ttl_seconds, max_size, now, nsets, cop, cret, last_set>>

\* ---- the workflow on the Gemini service ----

\* The texts of a request of a session, and what the store may hold of the
\* session: nothing, an earlier turn the LLM answered, or the earlier turn
\* "who are you" with the identity statement the router answered it with.
SessionInputs == {<<"explain", " ", "recursion">>, <<"hello">>}
SessionHistories ==
    {<<>>,
     <<[role |-> "user", content |-> <<"q0">>],
       [role |-> "assistant", content |-> <<"a0">>]>>,
     <<[role |-> "user", content |-> <<"who", " ", "are", " ", "you">>],
       [role |-> "assistant", content |-> <<"I am **Sentinel AI**, ...">>]>>}

\* m.role.capitalize()
Capitalize(role) == IF role = "user" THEN "User" ELSE "Assistant"

RECURSIVE HistoryStr(_)
\* "\n".join([f"{m.role.capitalize()}: {m.content}" for m in trimmed])
HistoryStr(h) ==
    IF h = <<>> THEN <<>>
    ELSE <<Capitalize(Head(h).role), ": ">> \o Head(h).content
         \o (IF Len(h) = 1 THEN <<>> ELSE <<"\n">> \o HistoryStr(Tail(h)))

\* planner_input.  "AI_PLANNER_PROMPT" is the text of the planner prompt,
\* which holds none of the router's patterns.
PlannerInput(h, user_input) ==
    <<"AI_PLANNER_PROMPT", "\n\nCONVERSATION SO FAR:\n">> \o HistoryStr(h)
    \o <<"\n\nLatest user message: ">> \o user_input

\* response_input as the text given to generate_content_stream:
\* full_context + feature_context
ResponsePrompt(h, user_input, feat_context) ==
    (IF HistoryStr(h) # <<>> THEN HistoryStr(h) \o <<"\nUser: ">> ELSE <<"User: ">>)
    \o user_input \o feat_context

\* What the Gemini API answers the planner prompt with.
GeminiPlannerTexts == {<<"j_answer">>, <<"j_run_known">>, <<"prose">>}

\* smart_router.route_request(prompt): the services hand the router the
\* whole prompt.
PromptForRouter(prompt, user_input) == prompt

\* GeminiService.generate_content(prompt): the cache afterwards and the
\* outcome.  An answer of the router is returned with the model
\* "local-logic" (its text is no JSON document); otherwise the API raises,
\* or its text is stored in the cache and returned.
GeminiGenerate(c, ttl, size, t, prompt, user_input) ==
    LET routed == RouteRequest(c, ttl, t, PromptForRouter(prompt, user_input), <<"standard">>)
    IN  IF routed.result # NoRoute
        THEN {[cache |-> routed.cache,
               outcome |-> [kind |-> "response", content |-> <<"prose">>,
                            model |-> "local-logic"]]}
        ELSE {[cache |-> routed.cache, outcome |-> [kind |-> "raises"]]}
             \cup {[cache |-> Set(routed.cache, size, t, prompt,
                                  [content |-> text, model |-> "gemini"], <<"standard">>),
                    outcome |-> [kind |-> "response", content |-> text, model |-> "gemini"]] :
                       text \in GeminiPlannerTexts}

\* chunk_size of the local path of generate_content_stream
LocalChunkSize == 5

\* The local path of generate_content_stream: the content in chunks of
\* five characters, then the stop chunk.
LocalScript(content) ==
    LET n == (Len(content) + LocalChunkSize - 1) \div LocalChunkSize
    IN  [i \in 1..n |->
            StreamChunk(SubSeq(content, LocalChunkSize * (i - 1) + 1,
                               IF LocalChunkSize * i < Len(content)
                               THEN LocalChunkSize * i ELSE Len(content)),
                        "none")]
        \o <<StreamChunk(<<>>, "stop")>>

\* What the stream of the Gemini API gives: chunks and the stop chunk, or
\* the error marker when the API raised.
GeminiScripts ==
    {<<StreamChunk(Chars(5, 2), "none"), StreamChunk(Chars(6, 3), "none"),
       StreamChunk(<<>>, "stop")>>,
     <<StreamChunk(<<>>, "stop")>>,
     <<StreamChunk(Chars(5, 2), "none"), StreamChunk(Chars(6, 3), "error")>>,
     <<StreamChunk(Chars(6, 3), "error")>>}

\* GeminiService.generate_content_stream(prompt) up to its first item: the
\* cache after the router looked at the prompt, and the items the
\* generator will yield.
GeminiStream(c, ttl, t, prompt, user_input) ==
    LET routed == RouteRequest(c, ttl, t, PromptForRouter(prompt, user_input), <<"standard">>)
    IN  IF routed.result # NoRoute
        THEN {[cache |-> routed.cache, script |-> LocalScript(routed.result.content)]}
        ELSE {[cache |-> routed.cache, script |-> script] : script \in GeminiScripts}

\* The planner step on the Gemini service.
GeminiPlan ==
    /\ \E g \in GeminiGenerate(cache, ttl_seconds, max_size, now,
                               PlannerInput(history, sanitized_input), sanitized_input) :
         /\ PlanWith(g.outcome)
         /\ cache' = g.cache
    /\ UNCHANGED <<ttl_seconds, max_size, now, nsets, cop, cret, last_set>>

\* The opening of the synthesis stream on the Gemini service.
GeminiOpenStream ==
    /\ \E g \in GeminiStream(cache, ttl_seconds, now,
                             ResponsePrompt(history, sanitized_input, feature_context),
                             sanitized_input) :
         /\ OpenStreamWith(g.script)
         /\ cache' = g.cache
    /\ UNCHANGED <<ttl_seconds, max_size, now, nsets, cop, cret, last_set>>

\* A faulty variant: the content of a chunk is forwarded before its
\* finish_reason is looked at.
Synthesize_ContentFirst ==
    /\ spc = "synthesis"
    /\ LET finish == <<ThoughtEvent("Step 5 Complete: Response stream finished."),
                       ThoughtEvent("Step 7: Persisting interaction to PostgreSQL..."),
                       ThoughtEvent("Workflow Complete.")>>
       IN  IF stream_i = Len(stream)
           THEN /\ WorkflowYields(finish)
                /\ spc' = AfterWorkflow
                /\ UNCHANGED stream_i
           ELSE LET chunk == stream[stream_i + 1]
                IN  IF chunk.hangs
                    THEN \* the async for has no deadline
                         /\ spc' = "blocked"
                         /\ UNCHANGED <<events, full_assistant_content, stream_i>>
                    ELSE IF chunk.raises
                    THEN /\ WorkflowYields(<<ErrorEvent("Exception")>>)
                         /\ spc' = AfterWorkflow
                         /\ UNCHANGED stream_i
                    ELSE IF chunk.finish_reason = "stop"
                    THEN /\ WorkflowYields(
                                (IF chunk.content # <<>>
                                 THEN <<TokenEvent(chunk.content)>> ELSE <<>>) \o finish)
                         /\ spc' = AfterWorkflow
                         /\ UNCHANGED stream_i
                    ELSE /\ IF chunk.content # <<>>
                            THEN WorkflowYields(<<TokenEvent(chunk.content)>>)
                            ELSE UNCHANGED <<events, full_assistant_content>>
                         /\ stream_i' = stream_i + 1
                         /\ UNCHANGED spc
    /\ UNCHANGED <<entry, sanitized_input, session_id, escaped, gen, response_input, feature_outcome, local_response, chunk_i, db,
                 history, planner_response, planner_decision, feature_context, stream, calls, cache,
                 ttl_seconds, max_size, now, nsets, cop, cret, last_set>>

\* execute_workflow_stream, Step 5: the next item of the synthesis stream,
\* and Steps 5 to 7 of the end when the stream is over.
Synthesize ==
    /\ spc = "synthesis"
    /\ LET finish == <<ThoughtEvent("Step 5 Complete: Response stream finished."),
                       ThoughtEvent("Step 7: Persisting interaction to PostgreSQL..."),
                       ThoughtEvent("Workflow Complete.")>>
       IN  IF stream_i = Len(stream)
           THEN /\ WorkflowYields(finish)
                /\ spc' = AfterWorkflow
                /\ UNCHANGED stream_i
           ELSE LET chunk == stream[stream_i + 1]
                IN  IF chunk.hangs
                    THEN \* the async for has no deadline
                         /\ spc' = "blocked"
                         /\ UNCHANGED <<events, full_assistant_content, stream_i>>
                    ELSE IF chunk.raises
                    THEN /\ WorkflowYields(<<ErrorEvent("Exception")>>)
                         /\ spc' = AfterWorkflow
                         /\ UNCHANGED stream_i
                    ELSE IF chunk.finish_reason = "stop"
                    THEN /\ WorkflowYields(finish)
                         /\ spc' = AfterWorkflow
                         /\ UNCHANGED stream_i
                    ELSE /\ IF chunk.content # <<>>
                            THEN WorkflowYields(<<TokenEvent(chunk.content)>>)
                            ELSE UNCHANGED <<events, full_assistant_content>>
                         /\ stream_i' = stream_i + 1
                         /\ UNCHANGED spc
    /\ UNCHANGED <<entry, sanitized_input, session_id, escaped, gen, response_input, feature_outcome, local_response, chunk_i, db,
                 history, planner_response, planner_decision, feature_context, stream, calls, cache,
                 ttl_seconds, max_size, now, nsets, cop, cret, last_set>>

\* A faulty variant: a save that fails is reported to the consumer as an
\* error event.
Persist_ErrorOnFailure ==
    /\ spc = "persist"
    /\ \E stored_m \in BOOLEAN, stored_i \in BOOLEAN :
         /\ db' = IF session_id # None /\ full_assistant_content # <<>>
                  THEN AddInteraction(
                           AddMessage(db, stored_m, "assistant", full_assistant_content),
                           stored_i, sanitized_input, full_assistant_content)
                  ELSE db
         /\ events' = IF session_id # None /\ full_assistant_content # <<>>
                         /\ ~(stored_m /\ stored_i)
                      THEN Append(events, ErrorEvent("Exception"))
                      ELSE events
    /\ calls' = IF session_id # None /\ full_assistant_content # <<>>
                THEN [calls EXCEPT !.persist = @ + 1]
                ELSE calls
    /\ spc' = "done"
    /\ UNCHANGED <<entry, sanitized_input, session_id, escaped, gen, response_input,
                   feature_outcome, local_response, chunk_i, history, planner_response,
                   planner_decision, feature_context, stream, stream_i,
                   full_assistant_content, cacheVars>>

\* event_generator after the workflow: save the answer when there is a
\* session and some content.  Nothing raises up to here (the workflow turns
\* its exceptions into an error event and db_manager swallows its own), so
\* the error event of event_generator itself is never yielded.
Persist ==
    /\ spc = "persist"
    /\ \E stored_m \in BOOLEAN, stored_i \in BOOLEAN :
         db' = IF session_id # None /\ full_assistant_content # <<>>
               THEN AddInteraction(
                        AddMessage(db, stored_m, "assistant", full_assistant_content),
                        stored_i, sanitized_input, full_assistant_content)
               ELSE db
    /\ calls' = IF session_id # None /\ full_assistant_content # <<>>
               THEN [calls EXCEPT !.persist = @ + 1]
               ELSE calls
    /\ spc' = "done"
    /\ UNCHANGED <<entry, sanitized_input, session_id, events, escaped, gen, response_input, feature_outcome, local_response,
                 chunk_i, history, planner_response, planner_decision, feature_context, stream,
                 stream_i, full_assistant_content, cache, ttl_seconds,
                 max_size, now, nsets, cop, cret, last_set>>

\* The consumer stops reading: the response is closed while the generator is
\* suspended at a yield or an await.  GeneratorExit and CancelledError are no
\* Exception, so no except clause runs and nothing after the point of
\* suspension is executed.
Cancel ==
    /\ spc \notin {"idle", "done", "cancelled"}
    /\ spc' = "cancelled"
    /\ UNCHANGED <<entry, sanitized_input, session_id, events, escaped, gen, response_input,
                   feature_outcome, local_response, chunk_i, db, history, planner_response,
                   planner_decision, feature_context, stream, stream_i,
                   full_assistant_content, calls, cacheVars>>

\* A generation service stores a response while no request is under way.
StoreResponse ==
    /\ spc = "idle"
    /\ CacheSetIn(StreamStoredInputs, RouteModes, StreamPayloads)
    /\ UNCHANGED streamVars

InitStreamVars ==
    /\ spc = "idle"
    /\ entry = "none"
    /\ sanitized_input = <<>>
    /\ session_id = None
    /\ events = <<>>
    /\ escaped = FALSE
    /\ local_response = NoRoute
    /\ chunk_i = 0
    /\ history = <<>>
    /\ planner_response = [kind |-> "none"]
    /\ planner_decision = DefaultDecision
    /\ feature_context = <<>>
    /\ stream = <<>>
    /\ stream_i = 0
    /\ full_assistant_content = <<>>
    /\ response_input = NoPrompt
    /\ feature_outcome = "none"
    /\ gen = [r \in GenRuns |-> IdleGen]
    /\ calls = [generate |-> 0, stream |-> 0, feature |-> 0, persist |-> 0]

(***************************************************************************)
(*                    BaseAgent.run_with_retry                             *)
(***************************************************************************)

\* What one execution of the work (self.execute under asyncio.wait_for) can do:
\* return a result, exceed the deadline, raise an AgentError (or its subclass
\* AgentValidationError), or raise any other exception.
WorkFailures == {"timeout", "agent_error", "validation_error", "other"}

\* The result execute returns on attempt k (it is handed _retry_attempt = k).
WorkResult(k) == [value |-> "result", attempt |-> k]

\* The exception a failing execution ends with: asyncio.TimeoutError when the
\* deadline of wait_for expires, otherwise what execute raised.  A message is
\* a sequence of pieces of text.
WorkException(f) ==
    CASE f = "timeout"          -> [cls |-> "TimeoutError", msg |-> <<>>]
      [] f = "agent_error"      -> [cls |-> "AgentError", msg |-> <<"rejected">>]
      [] f = "validation_error" -> [cls |-> "AgentValidationError",
                                    msg |-> <<"Missing required fields: ", "x">>]
      [] OTHER                  -> [cls |-> "ValueError", msg |-> <<"boom">>]

\* A faulty variant: an exception that is no AgentError is stored as it is.
ClassifyFailure_NoWrap(f, k) ==
    IF f = "timeout"
    THEN [cls |-> "AgentTimeoutError", msg |-> <<"Agent ", "timed out after ", "30s">>,
          attempt |-> k]
    ELSE [cls |-> WorkException(f).cls, msg |-> WorkException(f).msg, attempt |-> k]

\* The exception the except clauses store in last_exception for a failure of
\* kind f on attempt k (1-based): an AgentTimeoutError for the expired
\* deadline, the AgentError itself, or an AgentError that wraps the message
\* of any other exception.
ClassifyFailure(f, k) ==
    CASE f = "timeout" ->
             [cls |-> "AgentTimeoutError", msg |-> <<"Agent ", "timed out after ", "30s">>,
              attempt |-> k]
      [] f \in {"agent_error", "validation_error"} ->
             [cls |-> WorkException(f).cls, msg |-> WorkException(f).msg, attempt |-> k]
      [] OTHER ->
             [cls |-> "AgentError", msg |-> <<"Unexpected error: ">> \o WorkException(f).msg,
              attempt |-> k]

\* A faulty variant: the first failure observed is kept.
RecordFailure_KeepFirst(last, e) == IF last = NoException THEN e ELSE last

\* The assignment to last_exception in an except clause: the new failure
\* replaces whatever was stored.
RecordFailure(last, e) == e

\* A faulty variant: every sleep lasts one time unit.
Pow2_Const(n) == 1

\* 2 ** attempt
RECURSIVE Pow2(_)
Pow2(n) == IF n = 0 THEN 1 ELSE 2 * Pow2(n - 1)

\* `raise last_exception`: raising None is itself a TypeError.
Raised(e) ==
    IF e = NoException
    THEN [cls |-> "TypeError", msg |-> <<"exceptions must derive from BaseException">>,
          attempt |-> 0]
    ELSE e

\* A call of run_with_retry: last_exception = None and the loop starts.
RunWithRetry ==
    /\ rpc \in {"idle", "returned", "raised"}
    /\ runs < MaxRuns
    /\ runs' = runs + 1
    /\ rpc' = "loop"
    /\ attempt' = 0
    /\ last_exception' = NoException
    /\ outcome' = NoOutcome
    /\ work_log' = <<>>
    /\ sleeps' = <<>>
    /\ count_at_start' = <<success_count, error_count>>
    /\ UNCHANGED <<max_retries, last_activity, status, error_count, success_count>>

\* A faulty variant: last_activity is set by the first attempt only.
BeginAttempt_StampOnce ==
    /\ rpc = "loop"
    /\ attempt < max_retries
    /\ status' = "running"
    /\ last_activity' = IF attempt = 0 THEN now ELSE last_activity
    /\ rpc' = "executing"
    /\ UNCHANGED <<max_retries, error_count, success_count, attempt, last_exception,
                   outcome, work_log, sleeps, runs, count_at_start>>

\* The head of the loop body: status = "running", last_activity = time.time(),
\* then the work is awaited.
BeginAttempt ==
    /\ rpc = "loop"
    /\ attempt < max_retries
    /\ status' = "running"
    /\ last_activity' = now
    /\ rpc' = "executing"
    /\ UNCHANGED <<max_retries, error_count, success_count, attempt, last_exception,
                   outcome, work_log, sleeps, runs, count_at_start>>

\* A faulty variant: the success is recorded but the loop goes on.
AttemptSucceeds_NoReturn ==
    /\ rpc = "executing"
    /\ status' = "completed"
    /\ success_count' = success_count + 1
    /\ work_log' = Append(work_log, "ok")
    /\ outcome' = outcome
    /\ rpc' = "loop"
    /\ attempt' = attempt + 1
    /\ UNCHANGED <<max_retries, last_activity, error_count, last_exception, sleeps, runs,
                   count_at_start>>

\* The work returned within the deadline: record the success and return.
AttemptSucceeds ==
    /\ rpc = "executing"
    /\ status' = "completed"
    /\ success_count' = success_count + 1
    /\ work_log' = Append(work_log, "ok")
    /\ outcome' = [kind |-> "return", value |-> WorkResult(attempt + 1)]
    /\ rpc' = "returned"
    /\ UNCHANGED <<max_retries, last_activity, error_count, attempt, last_exception, sleeps, runs,
                   count_at_start>>

\* A faulty variant: after the failure of the last attempt the loop does not
\* advance, and the work is tried again.
AttemptFails_NoAdvance ==
    /\ rpc = "executing"
    /\ \E f \in WorkFailures :
         /\ last_exception' = RecordFailure(last_exception, ClassifyFailure(f, attempt + 1))
         /\ work_log' = Append(work_log, f)
    /\ IF attempt < max_retries - 1
       THEN /\ rpc' = "backoff"
            /\ attempt' = attempt
       ELSE /\ rpc' = "loop"
            /\ attempt' = attempt
    /\ UNCHANGED <<max_retries, last_activity, status, error_count, success_count, outcome, sleeps,
                   runs, count_at_start>>

\* A faulty variant: every failed attempt is counted as an error.
AttemptFails_CountsEach ==
    /\ rpc = "executing"
    /\ \E f \in WorkFailures :
         /\ last_exception' = RecordFailure(last_exception, ClassifyFailure(f, attempt + 1))
         /\ work_log' = Append(work_log, f)
    /\ error_count' = error_count + 1
    /\ IF attempt < max_retries - 1
       THEN /\ rpc' = "backoff"
            /\ attempt' = attempt
       ELSE /\ rpc' = "loop"
            /\ attempt' = attempt + 1
    /\ UNCHANGED <<max_retries, last_activity, status, success_count, outcome, sleeps,
                   runs, count_at_start>>

\* The work failed: store the classified failure; sleep if attempts remain.
AttemptFails ==
    /\ rpc = "executing"
    /\ \E f \in WorkFailures :
         /\ last_exception' = RecordFailure(last_exception, ClassifyFailure(f, attempt + 1))
         /\ work_log' = Append(work_log, f)
    /\ IF attempt < max_retries - 1
       THEN /\ rpc' = "backoff"
            /\ attempt' = attempt
       ELSE /\ rpc' = "loop"
            /\ attempt' = attempt + 1
    /\ UNCHANGED <<max_retries, last_activity, status, error_count, success_count, outcome, sleeps,
                   runs, count_at_start>>

\* await asyncio.sleep(2 ** attempt), then the next iteration.
Backoff ==
    /\ rpc = "backoff"
    /\ sleeps' = Append(sleeps, Pow2(attempt))
    /\ attempt' = attempt + 1
    /\ rpc' = "loop"
    /\ UNCHANGED <<max_retries, last_activity, status, error_count, success_count, last_exception,
                   outcome, work_log, runs, count_at_start>>

\* The loop is over without a return: status = "failed", raise last_exception.
AllRetriesFailed ==
    /\ rpc = "loop"
    /\ attempt >= max_retries
    /\ status' = "failed"
    /\ error_count' = error_count + 1
    /\ outcome' = [kind |-> "raise", exc |-> Raised(last_exception)]
    /\ rpc' = "raised"
    /\ UNCHANGED <<max_retries, last_activity, success_count, attempt, last_exception, work_log,
                   sleeps, runs, count_at_start>>

\* cleanup: status = "terminated".  The agent is owned by the one component
\* that runs it, which calls cleanup when no run of its is under way.
Cleanup ==
    /\ rpc \in {"idle", "returned", "raised"}
    /\ status # "terminated"
    /\ status' = "terminated"
    /\ UNCHANGED <<max_retries, last_activity, error_count, success_count, rpc, attempt,
                   last_exception, outcome, work_log, sleeps, runs, count_at_start>>

InitRetryVars ==
    /\ status = "initialized"
    /\ last_activity = None
    /\ error_count = 0
    /\ success_count = 0
    /\ rpc = "idle"
    /\ attempt = 0
    /\ last_exception = NoException
    /\ outcome = NoOutcome
    /\ work_log = <<>>
    /\ sleeps = <<>>
    /\ runs = 0
    /\ count_at_start = <<0, 0>>

InitRetry ==
    /\ max_retries \in 0..MaxRetries
    /\ InitRetryVars
    /\ InitCacheVars
    /\ ttl_seconds = DefaultTtl
    /\ max_size = DefaultMaxSize
    /\ InitRouterVars
    /\ InitStreamVars
    /\ db = EmptyDb

NextRetry ==
    \/ (RunWithRetry /\ UNCHANGED <<cacheVars, routerVars, streamVars>>)
    \/ (BeginAttempt /\ UNCHANGED <<cacheVars, routerVars, streamVars>>)
    \/ (AttemptSucceeds /\ UNCHANGED <<cacheVars, routerVars, streamVars>>)
    \/ (AttemptFails /\ UNCHANGED <<cacheVars, routerVars, streamVars>>)
    \/ (Backoff /\ UNCHANGED <<cacheVars, routerVars, streamVars>>)
    \/ (AllRetriesFailed /\ UNCHANGED <<cacheVars, routerVars, streamVars>>)

SpecRetry == InitRetry /\ [][NextRetry]_vars

\* The steps of a run under way.  wait_for ends every execution at the
\* deadline at the latest, asyncio.sleep returns, and the event loop resumes
\* the coroutine: a step of the run that can be taken is taken.  Nothing
\* obliges a caller to start a run.
RetrySteps ==
    /\ BeginAttempt \/ AttemptSucceeds \/ AttemptFails \/ Backoff \/ AllRetriesFailed
    /\ UNCHANGED <<cacheVars, routerVars, streamVars>>

SpecRetryFair == SpecRetry /\ WF_vars(RetrySteps)

\* The run state of an agent: runs, the clock, and cleanup between runs.
InitAgent == InitRetry

NextAgent ==
    \/ (RunWithRetry /\ UNCHANGED <<cacheVars, routerVars, streamVars>>)
    \/ (BeginAttempt /\ UNCHANGED <<cacheVars, routerVars, streamVars>>)
    \/ (AttemptSucceeds /\ UNCHANGED <<cacheVars, routerVars, streamVars>>)
    \/ (AttemptFails /\ UNCHANGED <<cacheVars, routerVars, streamVars>>)
    \/ (Backoff /\ UNCHANGED <<cacheVars, routerVars, streamVars>>)
    \/ (AllRetriesFailed /\ UNCHANGED <<cacheVars, routerVars, streamVars>>)
    \/ (Cleanup /\ UNCHANGED <<cacheVars, routerVars, streamVars>>)
    \/ (Tick /\ UNCHANGED <<retryVars, routerVars, streamVars>>)

SpecAgent == InitAgent /\ [][NextAgent]_vars

InitCache ==
    /\ InitCacheVars
    /\ ttl_seconds \in Ttls
    /\ max_size \in MaxSizes
    /\ max_retries = 0
    /\ InitRetryVars
    /\ InitRouterVars
    /\ InitStreamVars
    /\ db = EmptyDb

NextCache ==
    \/ (CacheGetIn(CacheInputs, CacheModes) /\ UNCHANGED <<retryVars, routerVars, streamVars>>)
    \/ (CacheSetIn(CacheInputs, CacheModes, Payloads) /\ UNCHANGED <<retryVars, routerVars, streamVars>>)
    \/ (CacheClear /\ UNCHANGED <<retryVars, routerVars, streamVars>>)
    \/ (Tick /\ UNCHANGED <<retryVars, routerVars, streamVars>>)

SpecCache == InitCache /\ [][NextCache]_vars

\* The capacity of the cache: sets of new and of known inputs, gets and
\* clears on a cache of a small capacity; no time passes.
InitEvict ==
    /\ InitCacheVars
    /\ ttl_seconds = DefaultTtl
    /\ max_size \in EvictSizes
    /\ max_retries = 0
    /\ InitRetryVars
    /\ InitRouterVars
    /\ InitStreamVars
    /\ db = EmptyDb

NextEvict ==
    \/ (EvictSet /\ UNCHANGED <<retryVars, routerVars, streamVars>>)
    \/ (EvictGet /\ UNCHANGED <<retryVars, routerVars, streamVars>>)
    \/ (CacheClear /\ UNCHANGED <<retryVars, routerVars, streamVars>>)

SpecEvict == InitEvict /\ [][NextEvict]_vars

\* The cache earlier calls have filled to its capacity of ten.
SeededCache ==
    [i \in 1..10 |-> [key |-> GenerateKey(EvictInput(i), <<"standard">>),
                      data |-> [content |-> Chars(7, 4), model |-> "m1"],
                      timestamp |-> 0]]

\* The sweep and the age of the entries: sets of new and of known inputs
\* and gets on a cache of capacity ten, while time passes.  It begins after
\* nine set calls at time 0 with nine inputs, one below the capacity.
InitSweep ==
    /\ cache = SubSeq(SeededCache, 1, 9)
    /\ now = 0
    /\ nsets = 9
    /\ cop = NoCall
    /\ cret = NoPayload
    /\ last_set = [op |-> "set", input |-> EvictInput(9), mode |-> <<"standard">>,
                   data |-> [content |-> Chars(7, 4), model |-> "m1"], time |-> 0]
    /\ ttl_seconds = DefaultTtl
    /\ max_size = 10
    /\ max_retries = 0
    /\ InitRetryVars
    /\ InitRouterVars
    /\ InitStreamVars
    /\ db = EmptyDb

NextSweep ==
    \/ (SweepSet /\ UNCHANGED <<retryVars, routerVars, streamVars>>)
    \/ (EvictGet /\ UNCHANGED <<retryVars, routerVars, streamVars>>)
    \/ (Tick /\ UNCHANGED <<retryVars, routerVars, streamVars>>)

SpecSweep == InitSweep /\ [][NextSweep]_vars

\* The key derivation: set and get with inputs and modes that differ in case,
\* surrounding whitespace and the way the default mode is given; no time passes.
InitKey ==
    /\ InitCacheVars
    /\ ttl_seconds = DefaultTtl
    /\ max_size = DefaultMaxSize
    /\ max_retries = 0
    /\ InitRetryVars
    /\ InitRouterVars
    /\ InitStreamVars
    /\ db = EmptyDb

NextKey ==
    \/ (CacheGetIn(KeyInputs, KeyModes) /\ UNCHANGED <<retryVars, routerVars, streamVars>>)
    \/ (CacheSetIn(KeyInputs, KeyModes, Payloads) /\ UNCHANGED <<retryVars, routerVars, streamVars>>)
    \/ (CacheClear /\ UNCHANGED <<retryVars, routerVars, streamVars>>)

SpecKey == InitKey /\ [][NextKey]_vars

\* The isolation of the entries: set and get with inputs and modes that
\* are equal or different after normalization; no time passes.
InitIsolate == InitKey

NextIsolate ==
    \/ (CacheGetIn(IsolateInputs, IsolateModes) /\ UNCHANGED <<retryVars, routerVars, streamVars>>)
    \/ (CacheSetIn(IsolateInputs, IsolateModes, Payloads) /\ UNCHANGED <<retryVars, routerVars, streamVars>>)
    \/ (CacheClear /\ UNCHANGED <<retryVars, routerVars, streamVars>>)

SpecIsolate == InitIsolate /\ [][NextIsolate]_vars

\* The router on the shared cache: route calls, the generation services'
\* set calls, and the clock.
InitRouter ==
    /\ InitCacheVars
    /\ ttl_seconds \in Ttls
    /\ max_size = DefaultMaxSize
    /\ max_retries = 0
    /\ InitRetryVars
    /\ InitRouterVars
    /\ InitStreamVars
    /\ db = EmptyDb

NextRouter ==
    \/ (Route /\ UNCHANGED <<retryVars, streamVars>>)
    \/ (CacheSetIn(StoredInputs, RouteModes, Payloads) /\ ForgetRoutes /\ UNCHANGED <<retryVars, streamVars>>)
    \/ (CacheClear /\ ForgetRoutes /\ UNCHANGED <<retryVars, streamVars>>)
    \/ (Tick /\ UNCHANGED <<retryVars, routerVars, streamVars>>)

SpecRouter == InitRouter /\ [][NextRouter]_vars

\* A request of the streaming pipeline, through POST /api/stream or through
\* execute_workflow_stream itself, on a store and a cache that hold what
\* earlier requests left.
InitStream ==
    /\ InitRetryVars
    /\ max_retries = 3
    /\ InitCacheVars
    /\ ttl_seconds = DefaultTtl
    /\ max_size = DefaultMaxSize
    /\ InitRouterVars
    /\ InitStreamVars
    /\ db \in {[messages |-> h, interactions |-> <<>>] : h \in StoredHistories}

NextStream ==
    \/ (StoreResponse /\ UNCHANGED <<retryVars, routerVars>>)
    \/ (StreamProcess /\ UNCHANGED <<retryVars, routerVars>>)
    \/ (ExecuteWorkflowStream /\ UNCHANGED <<retryVars, routerVars>>)
    \/ (ApiRouteCheck /\ UNCHANGED <<retryVars, routerVars>>)
    \/ (LocalChunk /\ UNCHANGED <<retryVars, routerVars>>)
    \/ (LocalFinal /\ UNCHANGED <<retryVars, routerVars>>)
    \/ (LocalPersist /\ UNCHANGED <<retryVars, routerVars>>)
    \/ (WorkflowRouteCheck /\ UNCHANGED <<retryVars, routerVars>>)
    \/ (WorkflowLocalToken /\ UNCHANGED <<retryVars, routerVars>>)
    \/ (LoadHistory /\ UNCHANGED <<retryVars, routerVars>>)
    \/ (Plan /\ UNCHANGED <<retryVars, routerVars>>)
    \/ (RunFeature /\ UNCHANGED <<retryVars, routerVars>>)
    \/ (OpenStream /\ UNCHANGED <<retryVars, routerVars>>)
    \/ (Synthesize /\ UNCHANGED <<retryVars, routerVars>>)
    \/ (Persist /\ UNCHANGED <<retryVars, routerVars>>)
    \/ (Cancel /\ UNCHANGED <<retryVars, routerVars>>)

SpecStream == InitStream /\ [][NextStream]_vars

\* A request of a session through execute_workflow_stream, with the Gemini
\* service as the generation service, on an empty cache.
InitSession ==
    /\ InitRetryVars
    /\ max_retries = 3
    /\ InitCacheVars
    /\ ttl_seconds = DefaultTtl
    /\ max_size = DefaultMaxSize
    /\ InitRouterVars
    /\ InitStreamVars
    /\ db \in {[messages |-> h, interactions |-> <<>>] : h \in SessionHistories}

NextSession ==
    \/ (ExecuteWorkflowStreamIn(SessionInputs, {"s1"}) /\ UNCHANGED <<retryVars, routerVars>>)
    \/ (WorkflowRouteCheck /\ UNCHANGED <<retryVars, routerVars>>)
    \/ (WorkflowLocalToken /\ UNCHANGED <<retryVars, routerVars>>)
    \/ (LoadHistory /\ UNCHANGED <<retryVars, routerVars>>)
    \/ (GeminiPlan /\ UNCHANGED <<retryVars, routerVars>>)
    \/ (RunFeature /\ UNCHANGED <<retryVars, routerVars>>)
    \/ (GeminiOpenStream /\ UNCHANGED <<retryVars, routerVars>>)
    \/ (Synthesize /\ UNCHANGED <<retryVars, routerVars>>)

SpecSession == InitSession /\ [][NextSession]_vars

\* The steps of a request under way.  The event loop resumes a generator
\* whose awaited call has ended, and a consumer that goes on reading asks for
\* the next event: a step of the request that can be taken is taken.
\* Nothing obliges a client to send a request or to stop reading, and
\* nothing obliges a remote service to answer.
StreamSteps ==
    /\ \/ ApiRouteCheck \/ LocalChunk \/ LocalFinal \/ LocalPersist
       \/ WorkflowRouteCheck \/ WorkflowLocalToken \/ LoadHistory \/ Plan
       \/ RunFeature \/ OpenStream \/ Synthesize \/ Persist
    /\ UNCHANGED <<retryVars, routerVars>>

SpecStreamFair == SpecStream /\ WF_vars(StreamSteps)

\* The history of a session that grows: a message is saved (the user's
\* before the workflow runs, the assistant's after it), and Step 1 of a
\* workflow run fetches and trims what is stored.  The content of the k-th
\* message is <<k>>.
AddTurn ==
    /\ Len(db.messages) < MaxTurns
    /\ \E stored \in BOOLEAN :
         db' = AddMessage(db, stored,
                          IF Len(db.messages) % 2 = 0 THEN "user" ELSE "assistant",
                          <<Len(db.messages) + 1>>)
    /\ UNCHANGED history

FetchHistory ==
    /\ \E ok \in BOOLEAN : history' = Trim(GetSessionHistory(db, ok))
    /\ UNCHANGED db

historyFrame ==
    <<spc, entry, sanitized_input, session_id, events, escaped, gen, local_response, chunk_i,
      planner_response, planner_decision, feature_context, stream, stream_i,
      full_assistant_content, response_input, feature_outcome, calls>>

InitHistory ==
    /\ InitRetryVars
    /\ max_retries = 0
    /\ InitCacheVars
    /\ ttl_seconds = DefaultTtl
    /\ max_size = DefaultMaxSize
    /\ InitRouterVars
    /\ InitStreamVars
    /\ db = EmptyDb

NextHistory ==
    \/ (AddTurn /\ UNCHANGED <<retryVars, cacheVars, routerVars, historyFrame>>)
    \/ (FetchHistory /\ UNCHANGED <<retryVars, cacheVars, routerVars, historyFrame>>)

SpecHistory == InitHistory /\ [][NextHistory]_vars

\* generate_content_stream, up to the first await: the router is asked
\* (which reads the cache); a local answer is streamed from it, otherwise
\* the provider is called and will stream some number of chunks.  The
\* calls are numbered in the order in which they begin.
GenStart ==
    \E r \in GenRuns, p \in GenPrompts :
        LET routed == RouteRequest(cache, ttl_seconds, now, p, <<"standard">>)
        IN  /\ gen[r].pc = "idle"
            /\ \A q \in 1..(r - 1) : gen[q].pc # "idle"
            /\ cache' = routed.cache
            /\ IF routed.result # NoRoute
               THEN gen' = [gen EXCEPT ![r] = [IdleGen EXCEPT !.pc = "local", !.prompt = p]]
               ELSE \E n \in 0..MaxChunks :
                      gen' = [gen EXCEPT ![r] =
                                 [IdleGen EXCEPT !.pc = "api", !.prompt = p, !.total = n]]
            /\ UNCHANGED <<ttl_seconds, max_size, now, nsets, cop, cret, last_set>>

\* A faulty variant: the text so far is stored with every chunk.
GenChunk_CachesEach ==
    \E r \in GenRuns :
        /\ gen[r].pc = "api"
        /\ gen[r].yielded < gen[r].total
        /\ gen' = [gen EXCEPT ![r].full_text = @ \o GenChunkText(r, gen[r].yielded + 1),
                              ![r].yielded = @ + 1]
        /\ cache' = Set(cache, max_size, now, gen[r].prompt,
                        GenPayload(gen'[r].full_text), <<"standard">>)
        /\ UNCHANGED <<ttl_seconds, max_size, now, nsets, cop, cret, last_set>>

\* The next chunk of the provider: it is added to full_text and yielded.
GenChunk ==
    \E r \in GenRuns :
        /\ gen[r].pc = "api"
        /\ gen[r].yielded < gen[r].total
        /\ gen' = [gen EXCEPT ![r].full_text = @ \o GenChunkText(r, gen[r].yielded + 1),
                              ![r].yielded = @ + 1]
        /\ UNCHANGED cacheVars

\* The stream of the provider is exhausted: the full text is stored and the
\* stop chunk is yielded.
GenFinish ==
    \E r \in GenRuns :
        LET d == GenPayload(gen[r].full_text)
        IN  /\ gen[r].pc = "api"
            /\ gen[r].yielded = gen[r].total
            /\ cache' = Set(cache, max_size, now, gen[r].prompt, d, <<"standard">>)
            /\ last_set' = [op |-> "set", input |-> gen[r].prompt, mode |-> <<"standard">>,
                            data |-> d, time |-> now]
            /\ nsets' = nsets + 1
            /\ gen' = [gen EXCEPT ![r].pc = "done"]
            /\ UNCHANGED <<ttl_seconds, max_size, now, cop, cret>>

\* The provider fails, at the call or in the middle of the stream: the
\* error chunk is yielded and nothing is stored.
GenFail ==
    \E r \in GenRuns :
        /\ gen[r].pc = "api"
        /\ gen' = [gen EXCEPT ![r].pc = "failed"]
        /\ UNCHANGED cacheVars

\* The local answer has been yielded in chunks of five characters, and the
\* stop chunk after them.
GenLocalDone ==
    \E r \in GenRuns :
        /\ gen[r].pc = "local"
        /\ gen' = [gen EXCEPT ![r].pc = "done"]
        /\ UNCHANGED cacheVars

\* The consumer stops reading while the generator is suspended at a yield
\* or at an await: GeneratorExit and CancelledError are no Exception, the
\* except clause does not run, and the generator is over.
GenCancel ==
    \E r \in GenRuns :
        /\ gen[r].pc \in {"local", "api"}
        /\ gen' = [gen EXCEPT ![r].pc = "cancelled"]
        /\ UNCHANGED cacheVars

genFrame ==
    <<spc, entry, sanitized_input, session_id, events, escaped, local_response, chunk_i,
      db, history, planner_response, planner_decision, feature_context, stream, stream_i,
      full_assistant_content, response_input, feature_outcome, calls>>

\* Calls of generate_content_stream side by side on the shared cache, which
\* is empty or full when they begin; no time passes.
InitGen ==
    /\ InitRetryVars
    /\ max_retries = 0
    /\ cache \in {<<>>, SeededCache}
    /\ nsets = Len(cache)
    /\ now = 0
    /\ cop = NoCall
    /\ cret = NoPayload
    /\ last_set = NoCall
    /\ ttl_seconds = DefaultTtl
    /\ max_size = 10
    /\ InitRouterVars
    /\ InitStreamVars
    /\ db = EmptyDb

NextGen ==
    \/ (GenStart /\ UNCHANGED <<retryVars, routerVars, genFrame>>)
    \/ (GenChunk /\ UNCHANGED <<retryVars, routerVars, genFrame>>)
    \/ (GenFinish /\ UNCHANGED <<retryVars, routerVars, genFrame>>)
    \/ (GenFail /\ UNCHANGED <<retryVars, routerVars, genFrame>>)
    \/ (GenLocalDone /\ UNCHANGED <<retryVars, routerVars, genFrame>>)
    \/ (GenCancel /\ UNCHANGED <<retryVars, routerVars, genFrame>>)

SpecGen == InitGen /\ [][NextGen]_vars

(***************************************************************************)
(*                 Properties of run_with_retry                            *)
(***************************************************************************)

\* C1: if the work fails on its first k attempts and succeeds on attempt
\* k+1 <= max_retries, the run returns the result of attempt k+1, the work
\* has been executed exactly k+1 times, no execution follows the success, and
\* success_count has grown by exactly 1 (error_count by 0).
C1_SuccessReturnsAtOnce ==
    /\ \A i \in 1..Len(work_log) :
          work_log[i] = "ok" => (i = Len(work_log) /\ rpc = "returned")
    /\ rpc = "returned" =>
          /\ Len(work_log) \in 1..max_retries
          /\ work_log[Len(work_log)] = "ok"
          /\ \A i \in 1..(Len(work_log) - 1) : work_log[i] \in WorkFailures
          /\ outcome = [kind |-> "return", value |-> WorkResult(Len(work_log))]
          /\ success_count = count_at_start[1] + 1
          /\ error_count = count_at_start[2]

\* C1 witness: fail, fail, succeed under max_retries = 3.
C1_Witness ==
    /\ rpc = "returned"
    /\ max_retries = 3
    /\ work_log = <<"timeout", "other", "ok">>
    /\ outcome = [kind |-> "return", value |-> WorkResult(3)]
    /\ success_count = 1

\* C2: when every one of the max_retries >= 1 attempts fails, the run raises
\* the failure of the last attempt, after exactly max_retries executions.
C2_RaisesLastFailure ==
    (rpc = "raised" /\ max_retries >= 1) =>
        /\ Len(work_log) = max_retries
        /\ \A i \in 1..Len(work_log) : work_log[i] \in WorkFailures
        /\ outcome = [kind |-> "raise",
                      exc |-> ClassifyFailure(work_log[max_retries], max_retries)]

\* C2 witness: two different failures under max_retries = 2; the second one
\* is raised.
C2_Witness ==
    /\ rpc = "raised"
    /\ max_retries = 2
    /\ work_log = <<"timeout", "validation_error">>
    /\ outcome.exc.cls = "AgentValidationError"
    /\ outcome.exc.attempt = 2

\* C13: the i-th sleep of a run lasts 2^(i-1) time units and follows the
\* failure of attempt i, whatever its kind, with i < max_retries; attempt
\* k+1 starts after exactly k sleeps; a run that is over has slept once less
\* than it has executed the work, so never after its last attempt and never
\* after a success; with max_retries = 1 there is one attempt and no sleep.
C13_BackoffSchedule ==
    /\ \A i \in 1..Len(sleeps) :
          /\ sleeps[i] = 2^(i - 1)
          /\ i < max_retries
          /\ work_log[i] \in WorkFailures
    /\ (rpc = "executing") => (Len(sleeps) = Len(work_log))
    /\ (rpc \in {"returned", "raised"} /\ work_log # <<>>) =>
          (Len(sleeps) = Len(work_log) - 1)
    /\ (max_retries = 1) => (sleeps = <<>> /\ Len(work_log) <= 1)

\* C13 witness: three failures of three kinds under max_retries = 3: sleeps
\* of 1 and 2 time units, none after the third failure.
C13_Witness ==
    /\ rpc = "raised"
    /\ max_retries = 3
    /\ work_log = <<"timeout", "other", "agent_error">>
    /\ sleeps = <<1, 2>>

\* C14: a run executes the work at most max_retries times and sleeps at
\* most max_retries - 1 times, and a run under way always comes to return
\* or to raise.
C14_RunTerminates ==
    /\ [](/\ Len(work_log) <= max_retries
          /\ (max_retries >= 1) => (Len(sleeps) <= max_retries - 1))
    /\ (rpc \in {"loop", "executing", "backoff"}) ~> (rpc \in {"returned", "raised"})

\* C14 witness: the work never completed on its own: three attempts ended
\* by the deadline, two sleeps, and the run has raised.
C14_Witness ==
    /\ rpc = "raised"
    /\ max_retries = 3
    /\ work_log = <<"timeout", "timeout", "timeout">>
    /\ Len(sleeps) = 2

\* C15: the failure a run raises is that of its last attempt, classified: an
\* AgentTimeoutError for an expired deadline, the AgentError or
\* AgentValidationError itself, or an AgentError whose message contains the
\* message of any other exception; and whatever the kind of a failure, the
\* run goes on to the backoff when attempts remain and to the end of the
\* loop when none does.
C15_SurfacedClassification ==
    /\ []((rpc = "raised" /\ work_log # <<>>) =>
            LET f == work_log[Len(work_log)]
                e == outcome.exc
                orig == WorkException(f)
            IN  /\ (f = "timeout") => (e.cls = "AgentTimeoutError")
                /\ (f \in {"agent_error", "validation_error"}) =>
                      (e.cls = orig.cls /\ e.msg = orig.msg)
                /\ (f = "other") => (e.cls = "AgentError" /\ Contains(e.msg, orig.msg))
                /\ e.attempt = Len(work_log))
    /\ [][(Len(work_log') = Len(work_log) + 1
              /\ work_log'[Len(work_log')] \in WorkFailures) =>
           (rpc' = IF Len(work_log') < max_retries THEN "backoff" ELSE "loop")]_vars

\* C15 witness: the last attempt raised a ValueError("boom"); the run raised
\* AgentError("Unexpected error: boom").
C15_Witness ==
    /\ rpc = "raised"
    /\ max_retries = 2
    /\ work_log = <<"agent_error", "other">>
    /\ outcome.exc.cls = "AgentError"
    /\ outcome.exc.msg = <<"Unexpected error: ", "boom">>

(***************************************************************************)
(*                 Properties of ResponseCache                             *)
(***************************************************************************)

\* trim(lowercase(y)), the normalization the claims speak of.
ClaimNorm(s) == Strip(Lower(s))

\* An empty or absent mode is "standard".
ClaimMode(m) == IF m = NoneMode \/ m = <<>> THEN <<"standard">> ELSE m

\* C9: after set(x, payload, mode), a get(y, mode') made within the TTL, with
\* no set or clear in between, returns payload whenever trim(lowercase(y)) =
\* trim(lowercase(x)) and the modes are equal once an empty or absent mode is
\* read as "standard".
C9_KeyInsensitive ==
    (/\ cop.op = "get"
     /\ last_set.op = "set"
     /\ ClaimNorm(cop.input) = ClaimNorm(last_set.input)
     /\ ClaimMode(cop.mode) = ClaimMode(last_set.mode)
     /\ cop.time - last_set.time <= ttl_seconds)
    => cret = last_set.data

\* C9 witness: set("hello", payload, "standard") then get("Hello ") with no
\* mode hits.
C9_Witness ==
    /\ last_set.op = "set"
    /\ last_set.input = <<"hello">>
    /\ last_set.mode = <<"standard">>
    /\ cop.op = "get"
    /\ cop.input = <<"Hello", " ">>
    /\ cop.mode = NoneMode
    /\ cret = last_set.data

\* C10: a get that finds an entry older than ttl_seconds returns None and
\* removes the entry; a get that finds an entry of age <= ttl_seconds returns
\* its payload and leaves the dict as it was; a get never returns anything
\* else.
C10_TtlOnGet ==
    [][(cop' # cop /\ cop'.op = "get") =>
        LET key == GenerateKey(cop'.input, cop'.mode)
            i == Lookup(cache, key)
        IN  /\ (i # 0 /\ now - cache[i].timestamp > ttl_seconds) =>
                  (cret' = NoPayload /\ Lookup(cache', key) = 0)
            /\ (i # 0 /\ now - cache[i].timestamp <= ttl_seconds) =>
                  (cret' = cache[i].data /\ cache' = cache)
            /\ i = 0 => (cret' = NoPayload /\ cache' = cache)]_vars

\* C10 witness: an entry set at time 0 with ttl_seconds = 1 is a miss at
\* time 2, and is gone.
C10_Witness ==
    /\ ttl_seconds = 1
    /\ last_set.op = "set"
    /\ last_set.time = 0
    /\ cop.op = "get"
    /\ cop.time = 2
    /\ cop.input = last_set.input
    /\ cret = NoPayload
    /\ Lookup(cache, GenerateKey(cop.input, cop.mode)) = 0

\* C11, as claimed: the number of stored entries never exceeds max_size.
C11_NeverExceedsMaxSize == Len(cache) <= max_size

\* C11, the failing case: a cache of max_size 2 holds three entries after
\* three sets of different inputs.
C11_Witness ==
    /\ max_size = 2
    /\ nsets = 3
    /\ Len(cache) = 3

\* The keys of the dict, in its order.
KeysOf(c) == [i \in 1..Len(c) |-> c[i].key]

\* C12: a set made when the dict holds max_size entries or more removes the
\* first floor(max_size / 10) entries in the order of insertion, a set made
\* below max_size removes nothing; every other entry keeps its value and its
\* place, the key set is added last unless it is kept, and then it stays in
\* place; a get that hits leaves the dict, and so its order, as it was.
C12_BulkSweepByInsertionOrder ==
    [][/\ (nsets' = nsets + 1) =>
            LET n == IF Len(cache) >= max_size THEN max_size \div 10 ELSE 0
                kept == SubSeq(cache, n + 1, Len(cache))
                key == GenerateKey(last_set'.input, last_set'.mode)
                held == \E i \in 1..Len(kept) : kept[i].key = key
            IN  /\ KeysOf(cache') = IF held THEN KeysOf(kept) ELSE Append(KeysOf(kept), key)
                /\ \A i \in 1..Len(kept) : kept[i].key # key => cache'[i] = kept[i]
       /\ (cop' # cop /\ cop'.op = "get" /\ cret' # NoPayload) => cache' = cache]_vars

\* C12 witness: a dict of max_size 10 that held ten entries was given an
\* eleventh input: the first entry is gone, the other nine are in place and
\* the new one is last.
C12_Witness ==
    /\ max_size = 10
    /\ nsets = 11
    /\ last_set.op = "set"
    /\ last_set.input = EvictInput(11)
    /\ KeysOf(cache) = [i \in 1..10 |-> GenerateKey(EvictInput(i + 1), <<"standard">>)]

(***************************************************************************)
(*                 Properties of SmartRouter                               *)
(***************************************************************************)

\* C7: a route call that finds an unexpired cache entry for (input, mode)
\* returns that payload tagged source = "cache", also when the normalized
\* input matches a fixed pattern; a fixed-pattern answer (source = "local") or
\* no answer is returned only when the cache lookup misses.
C7_CacheBeforePatterns ==
    [][(r_cur' # r_cur /\ r_cur'.op = "route") =>
        LET key == GenerateKey(r_cur'.input, r_cur'.mode)
            i == Lookup(cache, key)
            hit == i # 0 /\ now - cache[i].timestamp <= ttl_seconds
        IN  /\ hit => r_cur'.result = [content |-> cache[i].data.content,
                                       model |-> cache[i].data.model,
                                       source |-> "cache"]
            /\ ~hit => (r_cur'.result = NoRoute \/ r_cur'.result.source = "local")]_vars

\* C7 witness: the cache was seeded for "status"; the route call for
\* " Status" returns the seeded payload, not the status report.
C7_Witness ==
    /\ r_cur.op = "route"
    /\ r_cur.input = <<" ", "Status">>
    /\ last_set.op = "set"
    /\ last_set.input = <<"status">>
    /\ r_cur.result = WithSource(last_set.data, "cache")

IsStatusReport(r) == r # NoRoute /\ "type" \in DOMAIN r /\ r.type = "status_report"
IsCacheHit(r) == r # NoRoute /\ r.source = "cache"

\* C8 as claimed: two route calls with the same input and mode and no cache
\* mutation in between return the same decision, whenever they are made.
C8_RouteIdempotent_Claimed ==
    r_prev.op = "route" => r_prev.result = r_cur.result

\* C8 as amended: the two decisions are the same, except that (a) two status
\* reports made at different times differ in the time they carry and in
\* nothing else, and (b) a cache hit of the first call is not one of the
\* second when the entry's age passed ttl_seconds in between.
C8_RouteIdempotent ==
    r_prev.op = "route" =>
        \/ r_prev.result = r_cur.result
        \/ /\ r_prev.time < r_cur.time
           /\ IsStatusReport(r_prev.result) /\ IsStatusReport(r_cur.result)
           /\ r_prev.result.source = "local" /\ r_cur.result.source = "local"
           /\ DOMAIN r_prev.result = DOMAIN r_cur.result
        \/ /\ r_prev.time < r_cur.time
           /\ IsCacheHit(r_prev.result) /\ ~IsCacheHit(r_cur.result)
           /\ r_prev.stamp >= 0
           /\ r_prev.time - r_prev.stamp <= ttl_seconds
           /\ r_cur.time - r_prev.stamp > ttl_seconds
           /\ r_cur.result = LocalPatterns(r_cur.time, ClaimNorm(r_cur.input))

\* C8 witness: the same input routed twice at one time on an unchanged cache,
\* the first call having removed an expired entry.
C8_Witness ==
    /\ r_prev.op = "route"
    /\ r_prev.time = r_cur.time
    /\ r_prev.result = r_cur.result
    /\ r_prev.stamp >= 0
    /\ r_prev.time - r_prev.stamp > ttl_seconds
    /\ r_cur.stamp = -1

(***************************************************************************)
(*                 Properties of the streaming pipeline                    *)
(***************************************************************************)

\* The generators have returned and the consumer holds the whole sequence.
RunOver == spc = "done"

HasThought(evs, text) ==
    \E i \in 1..Len(evs) : evs[i].type = "thought" /\ evs[i].content = text
HasType(evs, type) == \E i \in 1..Len(evs) : evs[i].type = type

MalformedThought ==
    "Step 3 Warning: Planner response malformed. Defaulting to direct answer block."

\* The planner returned a text that is no PlannerDecision: it is not JSON,
\* it is JSON but not an object, or it is an object without an action.
NotADecision(o) ==
    /\ o.kind = "response"
    /\ LET parsed == JsonLoads(CleanJson(o.content))
       IN  \/ ~parsed.ok
           \/ parsed.value.kind # "object"
           \/ "action" \notin DOMAIN parsed.value.fields

\* The synthesis stream yields a non-empty chunk before it stops, and does
\* not raise.
YieldsText(s) ==
    /\ \A i \in 1..Len(s) : ~s[i].raises
    /\ \E i \in 1..Len(s) :
         /\ s[i].content # <<>>
         /\ \A j \in 1..i : s[j].finish_reason # "stop"

\* C3, as claimed: whenever the planner's text is not a PlannerDecision, the
\* run emits the diagnostic thought, goes on to the synthesis step as for
\* ANSWER_DIRECTLY (no feature is run) and, when the synthesis stream yields
\* text, ends with at least one token and no error event.
C3_MalformedPlanDegrades ==
    (RunOver /\ NotADecision(planner_response)) =>
        /\ HasThought(events, MalformedThought)
        /\ HasThought(events, StepFive.content)
        /\ calls.feature = 0
        /\ calls.stream = 1
        /\ YieldsText(stream) => (HasType(events, "token") /\ ~HasType(events, "error"))

\* C3, the failing case: the planner answered with a JSON list; the run is
\* over with the diagnostic thought followed by an error event, and the
\* synthesis stream was never opened.
C3_Witness ==
    /\ RunOver
    /\ planner_response = [kind |-> "response", content |-> <<"j_list">>]
    /\ HasThought(events, MalformedThought)
    /\ events[Len(events)].type = "error"
    /\ calls.stream = 0

\* The event that closes a run that went well: the last thought of the
\* workflow, or the final event of the local path of event_generator.
CompletionMarker(e) ==
    \/ e.type = "thought" /\ e.content = "Workflow Complete."
    \/ e.type = "tool_output"

\* C4, as claimed: no exception leaves the generator, an error event is
\* always the last event so far (so there is at most one and nothing follows
\* it), and a run that is over ended with the completion marker or with the
\* error event.
C4_EndsWithMarkerOrError ==
    /\ ~escaped
    /\ \A i \in 1..Len(events) : events[i].type = "error" => i = Len(events)
    /\ RunOver =>
          /\ Len(events) > 0
          /\ \/ events[Len(events)].type = "error"
             \/ CompletionMarker(events[Len(events)])

\* C4, the failing case: execute_workflow_stream, called by itself on an
\* input the router answers, is over and its last event is a token.
C4_Witness ==
    /\ RunOver
    /\ entry = "direct"
    /\ local_response # NoRoute
    /\ Len(events) = 2
    /\ events[2].type = "token"

\* The number of chunks of ChunkSize characters a text of n characters has.
ChunkCount(n) == (n + ChunkSize - 1) \div ChunkSize

\* The k-th chunk of ChunkSize characters of a text.
ChunkOf(text, k) ==
    SubSeq(text, (k - 1) * ChunkSize + 1,
           IF k * ChunkSize < Len(text) THEN k * ChunkSize ELSE Len(text))

\* The event names the source of the answer.
NamesSource(e, src) ==
    /\ e.type # "token"
    /\ \/ src = "cache" /\ e.content = "Source: cache"
       \/ src = "local" /\ e.content = "Source: local"

\* C5, as claimed: when the router answered the input, the sequence of the
\* finished run is one thought, then the chunks of ChunkSize characters of
\* the payload's content in order, one token each, then one event that names
\* the source; the generation capability was never called.
C5_LocalHitSequence ==
    (RunOver /\ local_response # NoRoute) =>
        LET content == local_response.content
            n == ChunkCount(Len(content))
        IN  /\ Len(events) = n + 2
            /\ events[1].type = "thought"
            /\ \A k \in 1..n :
                 /\ events[k + 1].type = "token"
                 /\ events[k + 1].content = ChunkOf(content, k)
            /\ NamesSource(events[n + 2], local_response.source)
            /\ calls.generate = 0
            /\ calls.stream = 0

\* C5, the failing case: execute_workflow_stream, called by itself with the
\* status keyword, is over after one thought and one token that holds the
\* whole report, which is longer than three chunks.
C5_Witness ==
    /\ RunOver
    /\ entry = "direct"
    /\ local_response # NoRoute
    /\ local_response.source = "local"
    /\ Len(local_response.content) > 3 * ChunkSize
    /\ Len(events) = 2
    /\ events[2].type = "token"
    /\ events[2].content = local_response.content
    /\ calls.generate = 0
    /\ calls.stream = 0

EventTypes == {"thought", "action", "token", "error"}

\* C6, as claimed: every event yielded so far has one of the four types.
C6_EventTypes == \A i \in 1..Len(events) : events[i].type \in EventTypes

\* C6, the failing case: POST /api/stream with a greeting is over and its
\* last event has the type tool_output.
C6_Witness ==
    /\ RunOver
    /\ entry = "api"
    /\ sanitized_input = <<"hello">>
    /\ events[Len(events)].type = "tool_output"
    /\ events[Len(events)].content = "Source: local"

\* The items of the synthesis stream that the workflow has read so far are
\* those before stream_i, and the one at stream_i + 1 once the run is over.
ErrorMarkerAt(s, i) ==
    /\ i \in 1..Len(s)
    /\ ~s[i].raises
    /\ s[i].finish_reason = "error"
    /\ \A j \in 1..(i - 1) : ~s[j].raises /\ s[j].finish_reason # "stop"

HasToken(evs, text) ==
    \E i \in 1..Len(evs) : evs[i].type = "token" /\ evs[i].content = text

\* C16, as claimed: when the synthesis stream of a finished run held a
\* chunk with finish_reason "error", the run ends with an error event, the
\* text of that chunk is not among the tokens, and the completion thoughts
\* are not emitted.
C16_ErrorMarkerBecomesError ==
    \A i \in 1..Len(stream) :
        (RunOver /\ calls.stream = 1 /\ ErrorMarkerAt(stream, i))
            => (/\ events[Len(events)].type = "error"
                /\ ~HasToken(events, stream[i].content)
                /\ ~HasThought(events, "Step 5 Complete: Response stream finished.")
                /\ ~HasThought(events, "Workflow Complete."))

\* C16, the failing case: the stream yields a chunk of text and then the
\* error marker of the service; the run is over, the marker's text went out
\* as a token, there is no error event, and the last event is the thought
\* "Workflow Complete.".
C16_Witness ==
    /\ RunOver
    /\ calls.stream = 1
    /\ stream = <<StreamChunk(Chars(5, 2), "none"), StreamChunk(Chars(6, 3), "error")>>
    /\ HasToken(events, Chars(6, 3))
    /\ ~HasType(events, "error")
    /\ events[Len(events)] = ThoughtEvent("Workflow Complete.")

\* A request is under way: it was started and the consumer has neither
\* received the last event of a finished run nor stopped reading.
RunUnderWay == spc \notin {"idle", "done", "cancelled"}

\* C17, as claimed: a run of the workflow never blocks for ever; while the
\* consumer goes on reading, every run under way comes to its end.
C17_RunNeverBlocks == RunUnderWay ~> (spc \in {"done", "cancelled"})

\* C17, the failing case: the planner call of a direct run never returns;
\* the Step 3 thought was the last event and the run waits with no deadline.
C17_Witness ==
    /\ spc = "blocked"
    /\ entry = "direct"
    /\ calls.generate = 1
    /\ planner_response.kind = "never_returns"
    /\ events[Len(events)] = ThoughtEvent("Step 3: Consulting AI Planner...")
    /\ ~HasType(events, "error")

\* The sequence has come to its normal end: the run is over, no error event
\* was yielded, and the last event is the completion marker.
NormalEnd ==
    /\ RunOver
    /\ Len(events) > 0
    /\ ~HasType(events, "error")
    /\ CompletionMarker(events[Len(events)])

\* Some tokens and then an error event.
PartialStream ==
    /\ Len(events) > 0
    /\ HasType(events, "token")
    /\ events[Len(events)].type = "error"

\* C18, as claimed: the assistant's answer is saved only by the caller of
\* the workflow and only after the sequence was read to its normal end; a
\* sequence the consumer stopped reading, and a partial one (tokens, then an
\* error event), lead to no add_message(assistant) / add_interaction call.
C18_PersistOnlyAfterNormalEnd ==
    /\ entry = "direct" => calls.persist = 0
    /\ calls.persist > 0 => NormalEnd
    /\ spc = "cancelled" => calls.persist = 0
    /\ PartialStream => calls.persist = 0

\* C18, the failing case: POST /api/stream with a session; the synthesis
\* stream yields a chunk and then raises, the sequence ends with the error
\* event, and the chunk is saved as the assistant's message and as the
\* interaction's response.
C18_Witness ==
    /\ RunOver
    /\ entry = "api"
    /\ session_id # None
    /\ stream = <<StreamChunk(Chars(5, 2), "none"), StreamRaises>>
    /\ PartialStream
    /\ calls.persist = 1
    /\ Len(db.messages) > 0
    /\ db.messages[Len(db.messages)] = [role |-> "assistant", content |-> Chars(5, 2)]
    /\ Len(db.interactions) = 1
    /\ db.interactions[1].assistant_response = Chars(5, 2)

\* C19: the step of event_generator that saves the exchange, whether
\* add_message and add_interaction store their rows or fail, yields no
\* event and lets no exception out: the sequence the consumer has received
\* is the same after the step as before it, and the request is over.
C19_PersistenceNeverChangesEvents ==
    [][(spc \in {"persist", "local_persist"} /\ spc' # spc /\ spc' # "cancelled")
           => (/\ events' = events
               /\ escaped' = escaped
               /\ spc' = "done")]_vars

\* C19, the case: a request with a session went through the workflow and
\* came to its normal end with tokens, the save was attempted, and neither
\* add_message nor add_interaction stored anything.
C19_Witness ==
    /\ NormalEnd
    /\ entry = "api"
    /\ session_id # None
    /\ calls.stream = 1
    /\ HasType(events, "token")
    /\ calls.persist = 1
    /\ db = EmptyDb

\* The last elements of the sequence s are the elements of t.
EndsWith(s, t) ==
    /\ Len(s) >= Len(t)
    /\ \A i \in 1..Len(t) : s[Len(s) - Len(t) + i] = t[i]

\* C20: the call of the feature never ends the run.  Whether the feature
\* returned its result, raised, or has a name that is not registered, the
\* step after the call yields no error event and goes on to the synthesis;
\* and the prompt of the synthesis is the base context (history and input)
\* followed by a feature part that ends with the result text on success,
\* with the text of the exception on failure, and with the "not found"
\* error text for an unknown name.
C20_FeatureNeverAborts ==
    /\ [][(calls'.feature = calls.feature + 1)
             => (/\ spc' = "open_stream"
                 /\ ~HasType(events', "error")
                 /\ feature_outcome' \in {"success", "raised", "not_found"}
                 /\ events'[Len(events')] =
                        ThoughtEvent("Step 5: Synthesizing final response output..."))]_vars
    /\ [](calls.feature = 1 /\ calls.stream = 1 =>
             LET name == DictGet(planner_decision.fields, "feature_name")
             IN  /\ response_input.context = [history |-> history, user |-> sanitized_input]
                 /\ feature_outcome = "success" =>
                        /\ name = "generate_ci_and_docker"
                        /\ EndsWith(response_input.feature,
                               <<"SUCCESS: DevOps stack generated (Dockerfile, docker-compose.yml, ci.yml, README update).">>)
                 /\ feature_outcome = "raised" =>
                        EndsWith(response_input.feature, FeatureError)
                 /\ feature_outcome = "not_found" =>
                        /\ name # "generate_ci_and_docker"
                        /\ EndsWith(response_input.feature,
                               <<"ERROR: Feature '", name, "' not found.">>))
    /\ [](calls.feature = 0 /\ calls.stream = 1 =>
             /\ feature_outcome = "none"
             /\ response_input.feature = <<>>)

\* C20, the case: the planner asked for the known feature, the feature
\* raised, the run went on through the synthesis to its normal end, and the
\* prompt of the synthesis ended with the text of the exception.
C20_Witness ==
    /\ NormalEnd
    /\ calls.feature = 1
    /\ calls.stream = 1
    /\ feature_outcome = "raised"
    /\ HasThought(events, "Step 4 Error: Feature execution failed. Explaining issue.")
    /\ HasType(events, "token")
    /\ response_input.feature =
           <<"\n\nFEATURE EXECUTION FAILED: ", "[Errno 13] Permission denied: 'Dockerfile'">>

\* The name the planner's decision gives for the feature (None when the
\* decision has none).
RequestedFeature == DictGet(planner_decision.fields, "feature_name")

\* C21, as claimed: a run that called the registry with a name that is not
\* registered reports a failed feature execution: the Step 4 error thought
\* is yielded, the Step 4 success thought is not, and the context of the
\* synthesis records a failure, not a result.
C21_UnknownFeatureIsFailure ==
    (calls.feature = 1 /\ RequestedFeature \notin KnownFeatures)
        => (/\ feature_outcome # "success"
            /\ HasThought(events, "Step 4 Error: Feature execution failed. Explaining issue.")
            /\ ~HasThought(events, "Step 4 Complete: Feature execution successful.")
            /\ feature_context[1] = "\n\nFEATURE EXECUTION FAILED: ")

\* C21, the failing case: the planner asked for a feature the registry
\* does not know; run_feature returned its ERROR text, the workflow yielded
\* "Step 4 Complete: Feature execution successful." and folded the text in
\* as a result, and the run came to its normal end.
C21_Witness ==
    /\ NormalEnd
    /\ calls.feature = 1
    /\ RequestedFeature \notin KnownFeatures
    /\ RequestedFeature # None
    /\ feature_outcome = "not_found"
    /\ HasThought(events, "Step 4 Complete: Feature execution successful.")
    /\ ~HasThought(events, "Step 4 Error: Feature execution failed. Explaining issue.")
    /\ feature_context =
           <<"\n\nFEATURE EXECUTION RESULT (", RequestedFeature, "):\n",
             "ERROR: Feature '", RequestedFeature, "' not found.">>

\* Step 1 of the workflow is behind the request.
HistoryStepDone == spc = "plan" \/ calls.generate = 1

\* The fetch of the history failed: the session has stored messages (the
\* store has not changed since Step 1, no save having been attempted), and
\* Step 1 got none of them.
FetchFailed ==
    /\ HistoryStepDone
    /\ session_id # None
    /\ calls.persist = 0
    /\ db.messages # <<>>
    /\ history = <<>>

\* C22, as claimed: Step 1 never ends the run.  When the fetch of the
\* history fails the warning thought is yielded and the run goes on with an
\* empty history; without a session nothing is fetched and neither a
\* warning nor an error is yielded.
C22_HistoryLoadNonFatal ==
    /\ (HistoryStepDone /\ calls.generate = 0) => ~HasType(events, "error")
    /\ FetchFailed =>
           HasThought(events,
               "Step 1 Warning: Memory retrieval failed. Starting with fresh context.")
    /\ (HistoryStepDone /\ session_id = None) =>
           /\ history = <<>>
           /\ ~HasThought(events, "Step 1 Complete: Loaded messages for context.")
           /\ ~HasThought(events,
                  "Step 1 Warning: Memory retrieval failed. Starting with fresh context.")

\* C22, the failing case: the session has stored messages and the fetch
\* fails; get_session_history answers with an empty list, Step 1 reports
\* its completion, no warning is yielded, and the synthesis is given an
\* empty history.
C22_Witness ==
    /\ FetchFailed
    /\ calls.stream = 1
    /\ response_input.context.history = <<>>
    /\ HasThought(events, "Step 1 Complete: Loaded messages for context.")
    /\ ~HasThought(events,
           "Step 1 Warning: Memory retrieval failed. Starting with fresh context.")
    /\ ~HasType(events, "error")

\* h is the last min(n, 10) elements of the n elements of all, in their order.
LastTenOf(h, all) ==
    /\ Len(h) = (IF Len(all) < 10 THEN Len(all) ELSE 10)
    /\ \A i \in 1..Len(h) : h[i] = all[Len(all) - Len(h) + i]

\* C23: the history of a run never has more than ten messages, and every
\* fetch that succeeds gives exactly the last min(n, 10) of the n stored
\* messages, oldest first and each one as it is stored (a fetch that fails
\* gives none).
C23_HistoryWindow ==
    /\ [](Len(history) <= 10)
    /\ [][(db' = db)
             => (history' = <<>> \/ LastTenOf(history', db.messages))]_vars

\* C23, the case: thirteen messages are stored and the history fetched
\* holds the ten from the fourth to the thirteenth.
C23_Witness ==
    /\ Len(db.messages) = 13
    /\ Len(history) = 10
    /\ history[1] = [role |-> "assistant", content |-> <<4>>]
    /\ history[10] = [role |-> "user", content |-> <<13>>]
    /\ \A i \in 1..10 : history[i] = db.messages[i + 3]

\* C24: every route call answers by the first stage that matches the
\* trimmed, lowercased input: the unexpired cache entry of the input; else
\* the status report for exactly status, system status, health or uptime;
\* else the identity statement for an input that contains who are you, what
\* are you or identity; else the greeting for exactly hello, hi, hey or
\* greetings; and it answers with no route exactly when no stage matches.
C24_FirstMatchCascade ==
    [][(r_cur' # r_cur /\ r_cur'.op = "route") =>
        LET n == ClaimNorm(r_cur'.input)
            res == r_cur'.result
            i == Lookup(cache, GenerateKey(r_cur'.input, r_cur'.mode))
            hit == i # 0 /\ now - cache[i].timestamp <= ttl_seconds
            isStatus == n \in {<<"status">>, <<"system", " ", "status">>, <<"health">>,
                               <<"uptime">>}
            isIdentity == \/ Contains(n, <<"who", " ", "are", " ", "you">>)
                          \/ Contains(n, <<"what", " ", "are", " ", "you">>)
                          \/ Contains(n, <<"identity">>)
            isGreeting == n \in {<<"hello">>, <<"hi">>, <<"hey">>, <<"greetings">>}
        IN  /\ hit => res = WithSource(cache[i].data, "cache")
            /\ (~hit /\ isStatus) =>
                   (IsStatusReport(res) /\ res.source = "local")
            /\ (~hit /\ ~isStatus /\ isIdentity) =>
                   (res # NoRoute /\ res.source = "local"
                    /\ "type" \in DOMAIN res /\ res.type = "identity")
            /\ (~hit /\ ~isStatus /\ ~isIdentity /\ isGreeting) =>
                   (res # NoRoute /\ res.source = "local"
                    /\ DOMAIN res = {"content", "source"})
            /\ (res = NoRoute) <=> (~hit /\ ~isStatus /\ ~isIdentity /\ ~isGreeting)]_vars

\* C24, the case: the input "my identity" has no cache entry and is no
\* status keyword; it contains "identity", and the call answered with the
\* identity statement from the local patterns.
C24_Witness ==
    /\ r_cur.op = "route"
    /\ r_cur.input = <<"my", " ", "identity">>
    /\ r_cur.stamp = -1
    /\ r_cur.result = WithSource(IdentityResponse, "local")

(***************************************************************************)
(*                 Properties of the generation service                    *)
(***************************************************************************)

\* The whole text the provider streams to call r.
CompleteText(r) == [j \in 1..gen[r].total |-> 100 * r + j]

\* The key of the prompt of call r.
KeyOfRun(r) == GenerateKey(gen[r].prompt, <<"standard">>)

\* Call r stores its text in this step.
Stores(r) == gen[r].pc = "api" /\ gen'[r].pc = "done"

EntriesOf(c) == {c[i] : i \in 1..Len(c)}

\* C25: calls that miss the cache on the same key may all generate, and
\* the cache stays sound in every interleaving: it never holds two entries
\* of one key; every entry is one that was there from the start or the
\* complete payload of a call that has finished with that key; and a step
\* adds or replaces only the entry of the key it stores and removes other
\* entries only by the capacity sweep (the first max_size div 10 entries of
\* a cache that holds max_size or more).
C25_RaceKeepsCacheSound ==
    /\ [](\A i, j \in 1..Len(cache) : (cache[i].key = cache[j].key) => (i = j))
    /\ [](\A i \in 1..Len(cache) :
             \/ cache[i] \in EntriesOf(SeededCache)
             \/ \E r \in GenRuns :
                   /\ gen[r].pc = "done"
                   /\ cache[i].key = KeyOfRun(r)
                   /\ cache[i].data = [content |-> CompleteText(r), model |-> "gemini"])
    /\ [][/\ \A e \in EntriesOf(cache') \ EntriesOf(cache) :
                 \E r \in GenRuns :
                     /\ Stores(r)
                     /\ e.key = KeyOfRun(r)
                     /\ e.data = [content |-> CompleteText(r), model |-> "gemini"]
          /\ \A i \in 1..Len(cache) :
                 (cache[i] \notin EntriesOf(cache')) =>
                     \E r \in GenRuns :
                         /\ Stores(r)
                         /\ \/ cache[i].key = KeyOfRun(r)
                            \/ (Len(cache) >= max_size /\ i <= max_size \div 10)]_vars

\* C25, the case: two calls with the same question (written in two ways)
\* both missed the empty cache and both generated two chunks; both have
\* stored, the second one first, and the cache holds one entry of the key,
\* with the complete text of the first call.
C25_Witness ==
    /\ gen[1].pc = "done" /\ gen[2].pc = "done"
    /\ gen[1].prompt = <<"q">> /\ gen[2].prompt = <<" ", "Q">>
    /\ gen[1].full_text = <<101, 102>>
    /\ gen[2].full_text = <<201, 202>>
    /\ Len(cache) = 1
    /\ cache[1].key = KeyOfRun(2)
    /\ cache[1].data = [content |-> <<101, 102>>, model |-> "gemini"]

\* C26: a call the consumer stops reading leaves the cache as it is: the
\* step of the cancellation changes no entry, and the cache never holds the
\* text a cancelled call had streamed up to its cancellation, nor any
\* shorter piece of it.
C26_CancelLeavesCacheSound ==
    /\ [][(\E r \in GenRuns : gen[r].pc # "cancelled" /\ gen'[r].pc = "cancelled")
             => (cache' = cache)]_vars
    /\ [](\A r \in GenRuns :
             (gen[r].pc = "cancelled") =>
                 \A i \in 1..Len(cache), n \in 1..gen[r].yielded :
                     cache[i].data.content # [j \in 1..n |-> 100 * r + j])

\* C26, the case: the first call was cancelled in the middle of its stream,
\* after one chunk of two; the full cache it began with is unchanged.
C26_Witness ==
    /\ gen[1].pc = "cancelled"
    /\ gen[1].total = 2
    /\ gen[1].yielded = 1
    /\ gen[1].full_text = <<101>>
    /\ cache = SeededCache

\* The stage of the workflow an event belongs to: 1 history load, 2 append
\* context, 3 planner, 4 feature, 5 start of the synthesis, 6 tokens,
\* 7 completion, 8 the error event; 0 for any other event.
StageOf(e) ==
    IF e.type = "token" THEN 6
    ELSE IF e.type = "action" THEN 4
    ELSE IF e.type = "error" THEN 8
    ELSE IF e.type # "thought" THEN 0
    ELSE CASE e.content \in
                 {"Step 1: Retrieving conversation history from PostgreSQL...",
                  "Step 1 Complete: Loaded messages for context.",
                  "Step 1 Warning: Memory retrieval failed. Starting with fresh context."} -> 1
           [] e.content = "Step 2: Appending latest input to active memory buffer..." -> 2
           [] e.content \in
                 {"Step 3: Consulting AI Planner...",
                  "Step 3 Complete: Intent identified.",
                  "Step 3 Warning: Planner response malformed. Defaulting to direct answer block."} -> 3
           [] e.content \in
                 {"Step 4: Initializing specialized engine...",
                  "Step 4 Complete: Feature execution successful.",
                  "Step 4 Error: Feature execution failed. Explaining issue."} -> 4
           [] e.content = "Step 5: Synthesizing final response output..." -> 5
           [] e.content \in
                 {"Step 5 Complete: Response stream finished.",
                  "Step 7: Persisting interaction to PostgreSQL...",
                  "Workflow Complete."} -> 7
           [] OTHER -> 0

\* The router had no answer and the workflow went into its stages.
NoMatchRun ==
    /\ Len(events) > 0
    /\ events[1] = ThoughtEvent("Step 1: Retrieving conversation history from PostgreSQL...")

\* The position of the thought with the text in evs, 0 when there is none.
ThoughtAt(evs, text) ==
    IF HasThought(evs, text)
    THEN CHOOSE i \in 1..Len(evs) : evs[i].type = "thought" /\ evs[i].content = text
    ELSE 0

\* C27: on the path through the stages every event belongs to a stage and
\* the stages never go back: history load, append context, planner,
\* feature (only when the decision is RUN_FEATURE), start of the synthesis,
\* tokens, completion.  No event other than a token occurs twice, a token
\* comes only after the planner's result and the start of the synthesis,
\* and the completion thoughts come in their order.
C27_StageOrder ==
    NoMatchRun =>
        /\ \A i \in 1..Len(events) : StageOf(events[i]) > 0
        /\ \A i, j \in 1..Len(events) :
               (i < j) => /\ StageOf(events[i]) <= StageOf(events[j])
                          /\ (events[i].type # "token" /\ events[j].type = events[i].type)
                                 => events[i].content # events[j].content
        /\ (\E i \in 1..Len(events) : StageOf(events[i]) = 4) =>
               /\ planner_decision.kind = "object"
               /\ DictGet(planner_decision.fields, "action") = "RUN_FEATURE"
        /\ HasType(events, "token") =>
               /\ \/ HasThought(events, "Step 3 Complete: Intent identified.")
                  \/ HasThought(events,
                         "Step 3 Warning: Planner response malformed. Defaulting to direct answer block.")
               /\ HasThought(events, "Step 5: Synthesizing final response output...")
        /\ HasThought(events, "Workflow Complete.") =>
               /\ ThoughtAt(events, "Step 5 Complete: Response stream finished.") = Len(events) - 2
               /\ ThoughtAt(events, "Step 7: Persisting interaction to PostgreSQL...") = Len(events) - 1
               /\ ThoughtAt(events, "Workflow Complete.") = Len(events)

\* C27, the case: a run with a feature came to its normal end with two
\* tokens; its events go through all seven stages.
C27_Witness ==
    /\ NoMatchRun
    /\ NormalEnd
    /\ session_id # None
    /\ calls.feature = 1
    /\ stream_i = 2
    /\ \A k \in 1..7 : \E i \in 1..Len(events) : StageOf(events[i]) = k

\* C28: within one run the planner is called at most once, the feature at
\* most once and the synthesis stream is opened at most once, whatever
\* fails; a feature is called only after the planner and the stream opened
\* only after it; what has been yielded stays (every step only adds events
\* at the end), so the tokens yielded before a failure precede its error
\* event, which is the last event.
C28_NoInternalRetry ==
    /\ [](/\ calls.generate <= 1
          /\ calls.feature <= 1
          /\ calls.stream <= 1
          /\ calls.feature <= calls.generate
          /\ calls.stream <= calls.generate
          /\ \A i \in 1..Len(events) : (events[i].type = "error") => (i = Len(events)))
    /\ [][/\ Len(events') >= Len(events)
          /\ \A i \in 1..Len(events) :
                 /\ events'[i].type = events[i].type
                 /\ events'[i].content = events[i].content
          /\ calls'.generate >= calls.generate
          /\ calls'.feature >= calls.feature
          /\ calls'.stream >= calls.stream
          /\ HasType(events, "error") =>
                 (calls' = [calls EXCEPT !.persist = calls'.persist] /\ events' = events)]_vars

\* C28, the case: a direct run whose planner answered and whose synthesis
\* stream raised after its first chunk: one call of each, the token is in
\* the sequence and the error event follows it as the last event.
C28_Witness ==
    /\ RunOver
    /\ entry = "direct"
    /\ calls.generate = 1
    /\ calls.stream = 1
    /\ stream = <<StreamChunk(Chars(5, 2), "none"), StreamRaises>>
    /\ Len(events) >= 2
    /\ events[Len(events) - 1].type = "token"
    /\ events[Len(events) - 1].content = Chars(5, 2)
    /\ events[Len(events)].type = "error"

IsToken(e) == e.type = "token"

\* The contents of the token events of evs, in their order.
TokensOf(evs) ==
    LET t == SelectSeq(evs, IsToken) IN [i \in 1..Len(t) |-> t[i].content]

\* The number of chunks the stream s produces before it signals its
\* completion: before the first stop chunk, or before the point where it
\* raises, stalls or ends.
ChunksBeforeEnd(s) ==
    IF \E i \in 1..Len(s) : s[i].finish_reason = "stop" \/ s[i].raises \/ s[i].hangs
    THEN (CHOOSE i \in 1..Len(s) :
              /\ s[i].finish_reason = "stop" \/ s[i].raises \/ s[i].hangs
              /\ \A j \in 1..(i - 1) :
                     ~(s[j].finish_reason = "stop" \/ s[j].raises \/ s[j].hangs)) - 1
    ELSE Len(s)

RECURSIVE NonEmptyContents(_)
\* The non-empty contents of the chunks of s, in their order.
NonEmptyContents(s) ==
    IF s = <<>> THEN <<>>
    ELSE (IF Head(s).content # <<>> THEN <<Head(s).content>> ELSE <<>>)
         \o NonEmptyContents(Tail(s))

\* C29: in a run that opened the synthesis stream the tokens yielded so far
\* are the non-empty contents of the chunks read so far, one token for each,
\* in the order of the stream and unchanged; no chunk beyond the completion
\* of the stream is read, and when the synthesis is over every chunk before
\* the completion has been read.
C29_TokensAreChunks ==
    (calls.stream = 1) =>
        /\ stream_i <= ChunksBeforeEnd(stream)
        /\ TokensOf(events) = NonEmptyContents(SubSeq(stream, 1, stream_i))
        /\ (spc \in {"persist", "done", "blocked"}) => (stream_i = ChunksBeforeEnd(stream))

\* C29, the case: the stream produced an empty chunk, a chunk of text, the
\* stop chunk and a chunk after it; the run is over with the one token of
\* the chunk of text.
C29_Witness ==
    /\ RunOver
    /\ calls.stream = 1
    /\ stream = <<StreamChunk(<<>>, "none"), StreamChunk(Chars(5, 2), "none"),
                  StreamChunk(Chars(6, 3), "stop"), StreamChunk(Chars(5, 2), "none")>>
    /\ stream_i = 2
    /\ TokensOf(events) = <<Chars(5, 2)>>
    /\ HasThought(events, "Workflow Complete.")


(***************************************************************************)
(*                  Properties of the cache entries                        *)
(***************************************************************************)

\* C30: an entry is read-only from its creation to its removal: in a step
\* on a cache below its capacity (no sweep runs, so no entry is removed and
\* created again within the step) every key that is in the cache before
\* and after the step has the payload and the timestamp it had.
C30_EntryReadOnly ==
    [][(Len(cache) < max_size) =>
           \A i \in 1..Len(cache), j \in 1..Len(cache') :
               (cache'[j].key = cache[i].key) =>
                   /\ cache'[j].data = cache[i].data
                   /\ cache'[j].timestamp = cache[i].timestamp]_vars


(***************************************************************************)
(*                  Properties of the agent run state                      *)
(***************************************************************************)

AgentStatuses == {"initialized", "running", "completed", "failed", "terminated"}

\* C31: the status is always one of initialized, running, completed, failed
\* and terminated; from the start of the first attempt until the run
\* finishes, backoff sleeps included, it is running; the step in which the
\* run returns sets it to completed and the step in which it raises sets it
\* to failed; and every start of an attempt sets last_activity to the time
\* of that start.
C31_StatusTracksRun ==
    /\ [](/\ status \in AgentStatuses
          /\ (rpc \in {"executing", "backoff"}) => (status = "running")
          /\ (rpc = "loop" /\ work_log # <<>>) => (status = "running"))
    /\ [][/\ (rpc # "returned" /\ rpc' = "returned") => (status' = "completed")
          /\ (rpc # "raised" /\ rpc' = "raised") => (status' = "failed")
          /\ (rpc # "executing" /\ rpc' = "executing") =>
                 (status' = "running" /\ last_activity' = now)]_vars

\* C31, the case: the second attempt of a run started at time 2 after the
\* failure and the backoff sleep of the first, which started at time 0.
C31_Witness ==
    /\ rpc = "executing"
    /\ Len(work_log) = 1
    /\ Len(sleeps) = 1
    /\ status = "running"
    /\ last_activity = 2
    /\ now = 2


(***************************************************************************)
(*                  Properties of the cache keys                           *)
(***************************************************************************)

\* C32: a get returns a payload only if an earlier set used an input and a
\* mode equal to its own after normalization; stated for a cache on which
\* one set was made: a get that returns a payload has the normalized input
\* and the mode of that set.
C32_EntriesIsolated ==
    (cop.op = "get" /\ cret # NoPayload /\ nsets = 1 /\ last_set.op = "set") =>
        /\ ClaimNorm(cop.input) = ClaimNorm(last_set.input)
        /\ ClaimMode(cop.mode) = ClaimMode(last_set.mode)

\* C32, the failing case: the entry stored for the input "a|b" in the
\* default mode is returned to a get of the input "a" in the mode
\* "b|standard".
C32_Witness ==
    /\ nsets = 1
    /\ last_set.op = "set"
    /\ last_set.input = <<"a", "|", "b">>
    /\ last_set.mode = NoneMode
    /\ cop.op = "get"
    /\ cop.input = <<"a">>
    /\ cop.mode = <<"b", "|", "standard">>
    /\ cret = last_set.data


(***************************************************************************)
(*                  Properties of the providers                            *)
(***************************************************************************)

\* The call of generate_content failed: it raised or it never came back.
GenerateFailed(o) == o.kind \in {"raises", "never_returns"}

\* C33: for every service the factory can select and whose health check is
\* true, every answer its generate_content gives without failing is a
\* record with a content field, and a run whose planner call got that
\* answer (and whose answer parsed to a JSON object or to no JSON at all)
\* opened the synthesis stream.
C33_ProviderIndependent ==
    \A provider \in Providers, api_key \in ApiKeys :
        LET service == CreateService(provider, api_key)
        IN  HealthCheck(service, api_key) =>
                \A o \in GenerateOutcomes(service) :
                    (/\ RunOver
                     /\ calls.generate = 1
                     /\ planner_response = o
                     /\ ~GenerateFailed(o)
                     /\ ParseDecision(o).decision.kind = "object")
                    => (o.kind = "response" /\ calls.stream = 1)

\* C33, the failing case: a run under the OpenAI service, whose
\* generate_content returned None; the run is over with an error event and
\* the synthesis stream was never opened.
C33_Witness ==
    /\ HealthCheck(CreateService("openai", "long"), "long")
    /\ planner_response \in GenerateOutcomes(CreateService("openai", "long"))
    /\ RunOver
    /\ calls.generate = 1
    /\ calls.stream = 0
    /\ events[Len(events)].type = "error"

\* An invocation of run_with_retry is under way.
RunInProgress == rpc \in {"loop", "executing", "backoff"}

\* C34: success_count and error_count never decrease; an invocation under
\* way has changed neither; an invocation that returned added 1 to
\* success_count and nothing to error_count; one that raised added 1 to
\* error_count, whatever the number of its failed attempts, and nothing to
\* success_count; and the sum of the two is the number of finished
\* invocations.
C34_CountersCountRuns ==
    /\ [](/\ RunInProgress =>
                <<success_count, error_count>> = count_at_start
          /\ (rpc = "returned") =>
                <<success_count, error_count>> = <<count_at_start[1] + 1, count_at_start[2]>>
          /\ (rpc = "raised") =>
                <<success_count, error_count>> = <<count_at_start[1], count_at_start[2] + 1>>
          /\ success_count + error_count = runs - (IF RunInProgress THEN 1 ELSE 0))
    /\ [][success_count' >= success_count /\ error_count' >= error_count]_vars

\* C34, the case: the first invocation returned; the second failed on each
\* of its three attempts and raised: one success and one error.
C34_Witness ==
    /\ runs = 2
    /\ rpc = "raised"
    /\ max_retries = 3
    /\ Len(work_log) = 3
    /\ count_at_start = <<1, 0>>
    /\ success_count = 1
    /\ error_count = 1


(***************************************************************************)
(*                  Frame of a route call                                  *)
(***************************************************************************)

\* C35: a call of route_request leaves the cache as it is, except when the
\* entry stored under the key of its input and mode is older than
\* ttl_seconds: then that entry, and nothing else, is removed; the entries
\* that stay keep their order, their payload and their timestamp.
C35_RouteOnlyDropsExpired ==
    [][(r_cur'.op = "route" /\ now' = now) =>
        LET key == GenerateKey(r_cur'.input, r_cur'.mode)
            i == Lookup(cache, key)
        IN  IF i # 0 /\ now - cache[i].timestamp > ttl_seconds
            THEN /\ Len(cache') = Len(cache) - 1
                 /\ \A j \in 1..(i - 1) : cache'[j] = cache[j]
                 /\ \A j \in i..Len(cache') : cache'[j] = cache[j + 1]
            ELSE cache' = cache]_vars

\* C35, the case: with ttl_seconds = 1 a route call for " Status" at time 2
\* found the entry stored at time 0 for "status" and removed it; the entry
\* of the other key is still there.
C35_Witness ==
    /\ ttl_seconds = 1
    /\ r_cur.op = "route"
    /\ r_cur.input = <<" ", "Status">>
    /\ r_cur.time = 2
    /\ r_cur.stamp = 0
    /\ Lookup(cache, GenerateKey(r_cur.input, r_cur.mode)) = 0
    /\ Len(cache) = 1
    /\ cache[1].key = GenerateKey(<<"q">>, <<"standard">>)


(***************************************************************************)
(*                  Properties of the context                              *)
(***************************************************************************)

\* The number of user turns with the text x among the messages h.
RECURSIVE UserTurns(_, _)
UserTurns(h, x) ==
    IF h = <<>> THEN 0
    ELSE (IF Head(h).role = "user" /\ Head(h).content = x THEN 1 ELSE 0)
         + UserTurns(Tail(h), x)

\* C37: for a request of /api/stream with a session_id the history loaded
\* for the planner and the synthesis does not hold the message being
\* processed, so the context, which ends with that message, holds it once.
\* (The stored sessions hold no earlier turn with the text of a request.)
C37_UserTurnOnce ==
    (entry = "api" /\ session_id # None /\ calls.generate = 1) =>
        UserTurns(history, sanitized_input) = 0

\* C37, the failing case: the request was saved by stream_process, the
\* history loaded by the workflow ends with it, and the context of the
\* synthesis holds it a second time after the history.
C37_Witness ==
    /\ entry = "api"
    /\ session_id # None
    /\ calls.stream = 1
    /\ history # <<>>
    /\ history[Len(history)] = [role |-> "user", content |-> sanitized_input]
    /\ response_input.context = FullContext(history, sanitized_input)
    /\ UserTurns(response_input.context.history, response_input.context.user) = 1


(***************************************************************************)
(*                  Properties of a session on the Gemini service          *)
(***************************************************************************)

\* The texts of the router's fixed answers at time t.
CannedAnswers(t) ==
    {StatusResponse(t).content, IdentityResponse.content, GreetingResponse.content}

\* C36: in a run whose input the router did not answer (the planner was
\* called), the planner call is answered by the backend, not by the
\* router, and the tokens of a run that is over are not one of the
\* router's fixed answers, whatever the history of the session holds.
C36_NoCannedAnswer ==
    (calls.generate = 1) =>
        /\ (planner_response.kind = "response") => (planner_response.model # "local-logic")
        /\ (RunOver /\ calls.stream = 1) => (TokenText(events) \notin CannedAnswers(now))

\* C36, the failing case: the session holds the earlier turn "who are you";
\* the request "explain recursion" is not answered by the router, yet both
\* the planner call and the synthesis stream are, and the tokens of the run
\* are the identity statement.
C36_Witness ==
    /\ RunOver
    /\ sanitized_input = <<"explain", " ", "recursion">>
    /\ history # <<>>
    /\ history[1].content = <<"who", " ", "are", " ", "you">>
    /\ calls.generate = 1
    /\ calls.stream = 1
    /\ planner_response.kind = "response"
    /\ planner_response.model = "local-logic"
    /\ TokenText(events) = IdentityResponse.content
    /\ HasThought(events, "Workflow Complete.")


(***************************************************************************)
(*                  Properties of the action event                         *)
(***************************************************************************)

\* The positions of the action events of the run.
ActionEvents == {i \in 1..Len(events) : events[i].type = "action"}

\* The parsed decision of the planner has action = RUN_FEATURE.
DecidedRunFeature ==
    /\ planner_decision.kind = "object"
    /\ DictGet(planner_decision.fields, "action") = "RUN_FEATURE"

\* C38: a run has an action event if and only if the parsed decision of the
\* planner has action = RUN_FEATURE, and then it has one; the registry is
\* called at most once and only after the action event, and once in a run
\* that is over; the action event comes before every token; and with any
\* other decision, or with a planner answer that was not parsed, the
\* registry is never called.
C38_ActionIffRunFeature ==
    /\ Cardinality(ActionEvents) <= 1
    /\ (ActionEvents # {}) <=> DecidedRunFeature
    /\ calls.feature <= Cardinality(ActionEvents)
    /\ (RunOver /\ ActionEvents # {}) => (calls.feature = 1)
    /\ \A i \in ActionEvents : \A j \in 1..Len(events) :
           (events[j].type = "token") => (i < j)
    /\ (~DecidedRunFeature) => (calls.feature = 0)

\* C38, the case: the planner decided RUN_FEATURE; the run is over with one
\* action event, one call of the registry, and tokens after the action
\* event.
C38_Witness ==
    /\ RunOver
    /\ DecidedRunFeature
    /\ Cardinality(ActionEvents) = 1
    /\ calls.feature = 1
    /\ HasType(events, "token")
    /\ HasThought(events, "Workflow Complete.")


(***************************************************************************)
(*                  Properties of the sweep                                *)
(***************************************************************************)

\* C39: the entries a sweep removes are the oldest ones; stated for a set
\* of an input that is not in the cache: no entry that is still there after
\* the set is older than an entry the set removed.
C39_SweepRemovesOldest ==
    [][(/\ nsets' = nsets + 1
        /\ Lookup(cache, GenerateKey(last_set'.input, last_set'.mode)) = 0) =>
           \A i \in 1..Len(cache), j \in 1..Len(cache) :
               (Lookup(cache', cache[i].key) = 0 /\ Lookup(cache', cache[j].key) # 0)
                   => (cache[j].timestamp >= cache[i].timestamp)]_vars

=============================================================================
